---- MODULE Spec2Model ----
(***************************************************************************)
(* A model of bevy-snake: the board simulation engine (one tick of all     *)
(* snakes: move, eat, collide, eliminate, game over, apple placement) and  *)
(* the tree search that drives clones of the board.                        *)
(*                                                                         *)
(* The engine's entry point Board::tick_board lives in board.rs, which is  *)
(* not among the sources; its steps are taken from the systems that are    *)
(* (snake_system, damage_snake_system, apple_system, in_bounds) and the    *)
(* glue between them from the specification.                               *)
(***************************************************************************)
EXTENDS Integers, Sequences, FiniteSets, TLC

\* ---------------------------------------------------------------- bounds
BoardW == 6
BoardH == 4
MaxPlayers == 3
NumApples == 1
RngMod == 4
MaxTicks == 3
SearchTicks == 2
ShapedTicks == 2
NumSeeds == 1
max_depth == 1
MaxLen == 8
MaxHoles == 5

\* ------------------------------------------------------ program constants
\* length of a snake at creation (main.rs snake_setup, ai_test.rs score base)
INIT_LEN == 4
\* attempts of the apple placement loop before it gives up
SPAWN_CAP == 1000
\* fewest snakes a multiplayer game goes on with
MULTI_FLOOR == 1

None == "None"
Up == "Up"
Down == "Down"
Left == "Left"
Right == "Right"

\* enum Direction, in declaration order
Direction == {Up, Down, Left, Right}

Inputs == Direction \cup {None}

\* const DIR: the unit vector of each direction
DIR(d) ==
    CASE d = Up -> <<0, 1>>
      [] d = Down -> <<0, -1>>
      [] d = Left -> <<-1, 0>>
      [] d = Right -> <<1, 0>>

VecAdd(a, b) == <<a[1] + b[1], a[2] + b[2]>>

\* fn in_bounds(pos, b)
in_bounds_inclusive(pos, b) ==
    pos[1] >= 0 /\ pos[1] <= b.width /\ pos[2] >= 0 /\ pos[2] <= b.height

in_bounds(pos, b) ==
    pos[1] >= 0 /\ pos[1] < b.width /\ pos[2] >= 0 /\ pos[2] < b.height

\* the test `current_dir + dir != IVec2::ZERO` of snake_system, negated
is_reverse(current_dir, dir) == VecAdd(DIR(current_dir), DIR(dir)) = <<0, 0>>

\* ------------------------------------------------------------ the events
AppleEaten(id) == [type |-> "AppleEaten", snake |-> id, part |-> -1]
SnakeDamaged(id, p) == [type |-> "SnakeDamaged", snake |-> id, part |-> p]
SnakeEliminated(id) == [type |-> "SnakeEliminated", snake |-> id, part |-> -1]
GameOver == [type |-> "GameOver", snake |-> -1, part |-> -1]

\* -------------------------------------------------------------- the rng
RngStates == 0 .. RngMod - 1

\* one step of the board's pseudo-random sequence
NextRng(r) == (5 * r + 3) % RngMod

\* ------------------------------------------------------------ the board
Cells(b) == (0 .. b.width - 1) \X (0 .. b.height - 1)

Parts(s) == {s.parts[i] : i \in 1 .. Len(s.parts)}

SnakeCells(b) == UNION {Parts(b.snakes[id]) : id \in DOMAIN b.snakes}

\* a classification that counts the segments from the head
get_head_first(b, pos) ==
    IF ~in_bounds(pos, b) THEN [cell |-> "OutOfBounds"]
    ELSE IF pos \in SnakeCells(b)
    THEN LET id == CHOOSE i \in DOMAIN b.snakes : pos \in Parts(b.snakes[i])
             s == b.snakes[id]
             part == CHOOSE i \in 1 .. Len(s.parts) : s.parts[i] = pos
         IN [cell |-> "Snake", id |-> id, part |-> Len(s.parts) - part]
    ELSE IF pos \in b.walls THEN [cell |-> "Wall"]
    ELSE IF pos \in b.apples THEN [cell |-> "Apple"]
    ELSE [cell |-> "Empty"]

\* Board::get: the classification of one coordinate
get(b, pos) ==
    IF ~in_bounds(pos, b) THEN [cell |-> "OutOfBounds"]
    ELSE IF pos \in SnakeCells(b)
    THEN LET id == CHOOSE i \in DOMAIN b.snakes : pos \in Parts(b.snakes[i])
             s == b.snakes[id]
             part == CHOOSE i \in 1 .. Len(s.parts) : s.parts[i] = pos
         IN [cell |-> "Snake", id |-> id, part |-> part - 1]
    ELSE IF pos \in b.walls THEN [cell |-> "Wall"]
    ELSE IF pos \in b.apples THEN [cell |-> "Apple"]
    ELSE [cell |-> "Empty"]

\* Board::snakes: the live snakes by id
snakes(b) == b.snakes

\* -------------------------------------------------------- apple placement
\* the rng state n steps after r, by repeated doubling
StepTab[n \in 0 .. 2 * SPAWN_CAP + 2] ==
    IF n = 0 THEN [r \in RngStates |-> r]
    ELSE IF n % 2 = 1 THEN [r \in RngStates |-> NextRng(StepTab[n - 1][r])]
    ELSE [r \in RngStates |-> StepTab[n \div 2][StepTab[n \div 2][r]]]

\* the rng state after the draws of the attempts from attempt RngMod + 1 to
\* the last but one, for each state it may be in after attempt RngMod
SkipTab == [r \in RngStates |-> StepTab[2 * (SPAWN_CAP - RngMod)][r]]

\* apple_system's test of a drawn position: it holds an apple already, or
\* it lies in the body of a snake
rejected(b, pos) == pos \in b.apples \/ pos \in SnakeCells(b)

\* The placement loop of apple_system for AppleEv::SpawnRandom: draw a
\* position, count the attempt, give up past the cap, start over when the
\* position is rejected.  The board does not change while the loop runs and
\* the rng has RngMod states, so once RngMod attempts in a row were rejected
\* every later one is too: the loop is then taken straight to its last
\* attempt, with the rng advanced by the draws in between.
RECURSIVE spawn_loop(_, _, _)
spawn_loop(b, rng, count) ==
    LET r1 == NextRng(rng)
        r2 == NextRng(r1)
        pos == <<r1 % b.width, r2 % b.height>>
    IN  IF count + 1 > SPAWN_CAP THEN [placed |-> FALSE, pos |-> pos, rng |-> r2]
        ELSE IF rejected(b, pos)
        THEN IF count + 1 = RngMod /\ RngMod < SPAWN_CAP
             THEN spawn_loop(b, SkipTab[r2], SPAWN_CAP)
             ELSE spawn_loop(b, r2, count + 1)
        ELSE [placed |-> TRUE, pos |-> pos, rng |-> r2]

\* one SpawnRandom event handled, drawing from the rng state r
spawn_apple(b, r) ==
    LET got == spawn_loop(b, r, 0)
    IN  [board |-> IF got.placed THEN [b EXCEPT !.apples = @ \cup {got.pos}] ELSE b,
         rng |-> got.rng,
         placed |-> got.placed]

\* n SpawnRandom events in a row, each handled whatever became of the one
\* before it
RECURSIVE spawn_each(_, _, _)
spawn_each(b, r, n) ==
    IF n = 0 THEN [b EXCEPT !.rng = r]
    ELSE LET one == spawn_apple(b, r)
         IN  spawn_each(one.board, one.rng, n - 1)

\* n SpawnRandom events in a row; apple_system returns from the whole loop
\* once one of them runs past the cap
RECURSIVE spawn_apples(_, _, _)
spawn_apples(b, r, n) ==
    IF n = 0 THEN [b EXCEPT !.rng = r]
    ELSE LET one == spawn_apple(b, r)
         IN  IF one.placed THEN spawn_apples(one.board, one.rng, n - 1)
             ELSE [b EXCEPT !.rng = one.rng]

\* ------------------------------------------------------------ creation
\* the wall layout of a board created with walls: the four corner cells
wall_layout(w, h) == {<<0, 0>>, <<w - 1, 0>>, <<0, h - 1>>, <<w - 1, h - 1>>}

\* the fixed start of each snake, tail first: snake 0 and snake 1 as in
\* snake_setup (heading right on row 1, heading left on row height - 2),
\* snakes 2 and 3 the same on the outer rows
start_snake(id, w, h) ==
    CASE id = 0 ->
           [parts |-> [i \in 1 .. INIT_LEN |-> <<i, 1>>],
            head |-> <<INIT_LEN, 1>>, dir |-> Right]
      [] id = 1 ->
           [parts |-> [i \in 1 .. INIT_LEN |-> <<w - 1 - i, h - 2>>],
            head |-> <<w - 1 - INIT_LEN, h - 2>>, dir |-> Left]
      [] id = 2 ->
           [parts |-> [i \in 1 .. INIT_LEN |-> <<i, h - 1>>],
            head |-> <<INIT_LEN, h - 1>>, dir |-> Right]
      [] id = 3 ->
           [parts |-> [i \in 1 .. INIT_LEN |-> <<w - 1 - i, 0>>],
            head |-> <<w - 1 - INIT_LEN, 0>>, dir |-> Left]

\* Board::new(settings), with the seed its rng starts from
new_board(players, walls, apples, seed) ==
    LET bare == [width |-> BoardW, height |-> BoardH,
                 walls |-> IF walls THEN wall_layout(BoardW, BoardH) ELSE {},
                 apples |-> {},
                 snakes |-> [id \in 0 .. players - 1 |-> start_snake(id, BoardW, BoardH)],
                 rng |-> seed,
                 players |-> players,
                 game_over |-> FALSE]
    IN  spawn_apples(bare, seed, apples)

\* Board::empty(width, height): a board without walls, apples and snakes
empty_board(w, h) ==
    [width |-> w, height |-> h, walls |-> {}, apples |-> {}, snakes |-> <<>>,
     rng |-> 0, players |-> 0, game_over |-> FALSE]

\* Clone for Board: a value copy of every field, the rng state included
clone(b) == b

\* ------------------------------------------------------- one snake's move
\* a move that takes any input, the reverse of the current direction too
move_dir_unchecked(snake, input) == IF input # None THEN input ELSE snake.dir

\* the direction a snake moves in: the input unless there is none or it is
\* the exact reverse of the current direction (snake_system of main.rs)
move_dir(snake, input) ==
    IF input # None /\ ~is_reverse(snake.dir, input) THEN input ELSE snake.dir

new_head(snake, input) == VecAdd(snake.head, DIR(move_dir(snake, input)))

\* a body that loses the segment next to the tail instead of the tail
shrink_next_to_tail(parts, head, ate) ==
    IF ate THEN Append(parts, head)
    ELSE <<parts[1]>> \o Tail(Tail(Append(parts, head)))

\* a body that loses its tail even when the head is on an apple
always_shrink(parts, head, ate) == Tail(Append(parts, head))

\* the body after the move: the new head is inserted; the tail is removed
\* unless the head is on an apple
grow_or_shrink(parts, head, ate) ==
    IF ate THEN Append(parts, head) ELSE Tail(Append(parts, head))

\* a move that does not clear the cell the tail leaves: the cell stays an
\* obstacle
move_leaving_tail_cell(b, id, input) ==
    LET s == b.snakes[id]
        head == new_head(s, input)
        ate == head \in b.apples
        moved == [parts |-> grow_or_shrink(s.parts, head, ate),
                  head |-> head,
                  dir |-> move_dir(s, input)]
    IN  [board |-> [b EXCEPT !.snakes[id] = moved,
                             !.apples = IF ate THEN @ \ {head} ELSE @,
                             !.walls = IF ate THEN @ ELSE @ \cup {s.parts[1]}],
         ate |-> ate]

\* snake_system's per-snake step on a tick: move, then eat or shrink
move_snake(b, id, input) ==
    LET s == b.snakes[id]
        head == new_head(s, input)
        ate == head \in b.apples
        moved == [parts |-> grow_or_shrink(s.parts, head, ate),
                  head |-> head,
                  dir |-> move_dir(s, input)]
    IN  [board |-> [b EXCEPT !.snakes[id] = moved,
                             !.apples = IF ate THEN @ \ {head} ELSE @],
         ate |-> ate]

\* all live snakes moved in ascending id order; the apples eaten are logged
RECURSIVE move_all(_, _, _, _)
move_all(b, inputs, id, log) ==
    IF id >= b.players THEN [board |-> b, log |-> log]
    ELSE IF id \notin DOMAIN b.snakes THEN move_all(b, inputs, id + 1, log)
    ELSE LET m == move_snake(b, id, inputs[id + 1])
         IN  move_all(m.board, inputs, id + 1,
                      IF m.ate THEN Append(log, AppleEaten(id)) ELSE log)

\* ------------------------------------------------------------ collisions
\* the wall test of snake_system
hits_wall(b, id) == b.snakes[id].head \in b.walls

\* a collision loop that skips the head of every snake, not only the
\* snake's own
collides_skipping_heads(b, id) ==
    LET new_head_pos == b.snakes[id].head
    IN  \/ ~in_bounds(new_head_pos, b)
        \/ \E other \in DOMAIN b.snakes :
             \E i \in 1 .. Len(b.snakes[other].parts) - 1 :
                b.snakes[other].parts[i] = new_head_pos

\* the "Handle end game" loop of snake_system for one snake: its new head
\* is out of bounds, or equals a segment of any snake other than its own head
collides(b, id) ==
    LET new_head_pos == b.snakes[id].head
    IN  \/ ~in_bounds(new_head_pos, b)
        \/ \E other \in DOMAIN b.snakes :
             \E i \in 1 .. Len(b.snakes[other].parts) :
                /\ ~(other = id /\ i = Len(b.snakes[other].parts))
                /\ b.snakes[other].parts[i] = new_head_pos

\* the snakes a tick damages
damaged_snakes(b) == {id \in DOMAIN b.snakes : hits_wall(b, id) \/ collides(b, id)}

\* --------------------------------------------------------- elimination
\* an elimination that leaves the snake on the board
keep_on_board(b, dead) == b

\* damage_snake_system for a hit at the head (snake_pos 0 < 2): the snake
\* is taken off the board
eliminate(b, dead) ==
    [b EXCEPT !.snakes = [id \in (DOMAIN b.snakes) \ dead |-> b.snakes[id]]]

\* the events of the eliminations, in descending id order
RECURSIVE damage_log_descending(_, _, _)
damage_log_descending(dead, id, players) ==
    IF id >= players THEN <<>>
    ELSE damage_log_descending(dead, id + 1, players)
         \o (IF id \in dead THEN <<SnakeDamaged(id, 0), SnakeEliminated(id)>> ELSE <<>>)

\* the events of the eliminations, in ascending id order
RECURSIVE damage_log(_, _, _)
damage_log(dead, id, players) ==
    IF id >= players THEN <<>>
    ELSE (IF id \in dead THEN <<SnakeDamaged(id, 0), SnakeEliminated(id)>> ELSE <<>>)
         \o damage_log(dead, id + 1, players)

\* a single-player game that is over after any tick
always_over(players, dead) == players = 1

\* a single-player game that is never over
never_over(players, dead) == FALSE

\* damage_snake_system with settings.snake_count == 1: the game is over as
\* soon as the snake is damaged
single_player_game_over(players, dead) == players = 1 /\ dead # {}

\* with more snakes configured the game is over once no more than the
\* multiplayer floor survive
multiplayer_game_over(players, survivors) ==
    players # 1 /\ Cardinality(survivors) <= MULTI_FLOOR

game_over_now(players, dead, survivors) ==
    single_player_game_over(players, dead) \/ multiplayer_game_over(players, survivors)

\* --------------------------------------------------------------- the tick
\* apple placement drawing from a generator outside the board, as
\* rand::thread_rng() does
thread_rng(b) == RngStates

\* the rng states a tick's apple placement may start from: the board's own
rng_source(b) == {b.rng}

\* a board that goes on ticking after the game is over
never_refuses(b) == FALSE

\* a tick is refused once the game is over
refuses_game_over(b) == b.game_over

\* a tick refused unless it is given exactly one move slot per snake
refuses_other_counts(b, inputs) == Len(inputs) # b.players

\* a tick is refused when it is given fewer move slots than snakes were
\* configured (update_game and chose_move pass four slots whatever the number
\* of snakes, ai_test one slot for the one snake)
refuses_inputs(b, inputs) == Len(inputs) < b.players

\* Board::tick_board with its apple placement starting from rng state r.
\* `moved` is the board between the moves and the eliminations.
tick_outcome(b, inputs, r) ==
    IF refuses_game_over(b)
    THEN [board |-> b, moved |-> b, events |-> <<>>, result |-> "GameOverError"]
    ELSE IF refuses_inputs(b, inputs)
    THEN [board |-> b, moved |-> b, events |-> <<>>, result |-> "InputError"]
    ELSE LET m == move_all(b, inputs, 0, <<>>)
             dead == damaged_snakes(m.board)
             after == eliminate(m.board, dead)
             over == game_over_now(b.players, dead, DOMAIN after.snakes)
             placed == spawn_apples(after, r, Len(m.log))
         IN  [board |-> [placed EXCEPT !.game_over = over],
              moved |-> m.board,
              events |-> m.log \o damage_log(dead, 0, b.players)
                               \o (IF over THEN <<GameOver>> ELSE <<>>),
              result |-> "Ok"]

\* Board::tick_board: every outcome the call can have
tick_board(b, inputs) == {tick_outcome(b, inputs, r) : r \in rng_source(b)}

\* the ids a log eliminates
Eliminated(log) == {log[i].snake : i \in {j \in DOMAIN log : log[j].type = "SnakeEliminated"}}

\* ------------------------------------------------------------- the state
VARIABLES
    board,        \* the live board
    events,       \* the event log the last tick_board call returned
    result,       \* how that call ended: "New" before the first call
    slots,        \* the number of move slots that call was given
    given,        \* the move tuple that call was given
    prev,         \* the live board as it was before that call
    moved,        \* the live board between that call's moves and eliminations
    gone,         \* the ids eliminated by the calls before that call
    replica,      \* a clone of the board as created, given the same inputs
    replica_out,  \* the events and result of the replica's last call
    ticks,        \* the number of tick_board calls so far
    heap,         \* the boards chose_move owns, by handle 1, 2, ...
    queue,        \* chose_move's queue of BoardEval
    final_boards, \* chose_move's final_boards
    pc,           \* where chose_move is: "Idle" when it is not running
    cur,          \* the BoardEval taken from the queue
    dirs,         \* the index in Direction::ALL the for loop is at
    origin,       \* the board of cur as it was when cur was taken
    root,         \* the live board as it was when chose_move was called
    answer,       \* how the last chose_move call ended
    gizmos,       \* the sink of that call: whether given, and the points pushed
    scores,       \* the scores of the final boards when that call returned
    chosen,       \* the direction that call returned
    acc_in,       \* the accumulated score an eval_board call was given
    looked,       \* the id of the snake that call looked at
    value,        \* the score that call returned, <<>> before the call
    graph,        \* the adjacency lists a cycle_basis call was given
    cycles,       \* how that call ended, "None" before it, and its cycles
    spawned,      \* the SpawnRandom events apple_system was run on, and whether it ran
    input_queues, \* SnakeInputs: the input_queue of each SnakeInput
    settings,     \* Settings: ai and do_game_tick
    frame,        \* the system the frame is at, and TickTimer's just_finished
    game,         \* the server's game_loop: where it is, and its Clients
    register,     \* the channel of new clients to game_loop
    handlers,     \* each snake_ws_handler: where it is, and the command it sends
    game_commands, \* the game_commands channel of each client
    game_updates  \* the game_updates channel of each client

engine_vars == <<board, events, result, slots, given, prev, moved, gone, replica, replica_out, ticks>>

search_vars == <<heap, queue, final_boards, pc, cur, dirs, origin, root, answer>>

\* no sink: the points pushed are lost
NoSink == [given |-> FALSE, points |-> 0]

eval_vars == <<gizmos, scores, chosen, acc_in, looked, value>>

graph_vars == <<graph, cycles>>

driver_vars == <<input_queues, settings, frame>>

server_vars == <<game, register, handlers, game_commands, game_updates>>

app_vars == <<spawned, driver_vars, server_vars>>

vars == <<engine_vars, search_vars, eval_vars, graph_vars, app_vars>>

\* the number of move slots update_game and chose_move pass
SLOTS == 4

\* most websocket connections the server is given
MaxClients == 2

\* game_loop as it starts, and no websocket connected
ServerIdle ==
    /\ game = [pc |-> "select", clients |-> <<>>, at |-> 0, delete |-> {}, update |-> 0]
    /\ register = <<>>
    /\ handlers = [c \in 1 .. MaxClients |-> [pc |-> "none", command |-> None]]
    /\ game_commands = [c \in 1 .. MaxClients |-> <<>>]
    /\ game_updates = [c \in 1 .. MaxClients |-> <<>>]

\* nothing has run outside the engine and the search
AppIdle ==
    /\ ServerIdle
    /\ spawned = [asked |-> 0, done |-> FALSE]
    /\ input_queues = [i \in 1 .. SLOTS |-> <<>>]
    /\ settings = [ai |-> FALSE, do_game_tick |-> TRUE]
    /\ frame = [phase |-> "update_game", just_finished |-> FALSE]

\* a move tuple filled up with None to the SLOTS slots of update_game
padded(t) ==
    IF Len(t) >= SLOTS THEN t ELSE t \o [i \in 1 .. SLOTS - Len(t) |-> None]

\* the move tuples a caller may pass: one slot per configured snake, or none
InputTuples(players) == [1 .. players -> Inputs] \cup {<<>>}

\* the move tuples of every shape the callers pass: one slot per configured
\* snake (ai_test, server), SLOTS slots whatever the number of snakes
\* (update_game, chose_move), and those with a slot too few
CallerTuples(players) ==
    [1 .. players -> Inputs]
        \cup {padded(t) : t \in [1 .. players -> Inputs]}
        \cup [1 .. players - 1 -> Inputs]

\* struct BoardEval of chose_move; board is the handle of the board it owns
BoardEval(h, score, depth, history) ==
    [board |-> h, score |-> score, depth |-> depth, history |-> history]

NoEval == BoardEval(0, 0, 0, <<>>)

Init ==
    \E players \in 1 .. MaxPlayers, walls \in BOOLEAN, seed \in RngStates :
        /\ board = new_board(players, walls, NumApples, seed)
        /\ replica = clone(new_board(players, walls, NumApples, seed))
        /\ prev = new_board(players, walls, NumApples, seed)
        /\ moved = new_board(players, walls, NumApples, seed)
        /\ events = <<>>
        /\ result = "New"
        /\ slots = 0
        /\ given = <<>>
        /\ gone = {}
        /\ replica_out = [events |-> <<>>, result |-> "New"]
        /\ ticks = 0
        /\ heap = <<>>
        /\ queue = <<>>
        /\ final_boards = <<>>
        /\ pc = "Idle"
        /\ cur = NoEval
        /\ dirs = 0
        /\ origin = new_board(players, walls, NumApples, seed)
        /\ root = new_board(players, walls, NumApples, seed)
        /\ answer = "None"
        /\ gizmos = NoSink
        /\ scores = <<>>
        /\ chosen = None
        /\ acc_in = 0
        /\ looked = -1
        /\ value = <<>>
        /\ graph = <<>>
        /\ cycles = [status |-> "None", list |-> <<>>]
        /\ AppIdle

\* one call of tick_board on the live board with a move tuple of `tuples`,
\* and the same call on the replica; `record` keeps the tuple in `given`
Called(tuples, record) ==
    \E inputs \in tuples :
      \E out \in tick_board(board, inputs), rout \in tick_board(replica, inputs) :
        /\ board' = out.board
        /\ events' = out.events
        /\ result' = out.result
        /\ slots' = Len(inputs)
        /\ given' = IF record THEN inputs ELSE <<>>
        /\ prev' = board
        /\ moved' = out.moved
        /\ gone' = gone \cup Eliminated(events)
        /\ replica' = rout.board
        /\ replica_out' = [events |-> rout.events, result |-> rout.result]
        /\ ticks' = ticks + 1
        /\ UNCHANGED <<search_vars, eval_vars, graph_vars>>

\* that call made by a caller other than update_game
Call(tuples, record) == Called(tuples, record) /\ UNCHANGED app_vars

\* one call of tick_board on the live board, and the same call on the replica
Tick ==
    /\ ticks < MaxTicks
    /\ pc = "Idle"
    /\ Call(InputTuples(board.players), FALSE)

\* one call of tick_board with a move tuple of any of the callers' shapes
ShapedTick ==
    /\ ticks < ShapedTicks
    /\ pc = "Idle"
    /\ Call(CallerTuples(board.players), TRUE)

\* ---------------------------------------------------- TreeSearch::chose_move
\* Direction::ALL
ALL == <<Up, Down, Left, Right>>

\* Direction::opposite
opposite(d) ==
    CASE d = Up -> Down
      [] d = Down -> Up
      [] d = Left -> Right
      [] d = Right -> Left

\* the seeds StdRng::from_rng(&mut rng) may give a speculative board
Seeds == 0 .. NumSeeds - 1

\* the score of one apple is 1 / (depth + 1); scores are kept in units of
\* 1 / ScoreUnit
ScoreUnit == 12

\* the boards in memory: the live board under handle 0, those chose_move
\* owns under their heap index
Mem == [live |-> board, heap |-> heap]

deref(m, h) == IF h = 0 THEN m.live ELSE m.heap[h]

store(m, h, b) == IF h = 0 THEN [m EXCEPT !.live = b] ELSE [m EXCEPT !.heap[h] = b]

\* board.clone(): a new board in memory with the fields of the board at h
clone_at(m, h) ==
    [mem |-> [m EXCEPT !.heap = Append(@, clone(deref(m, h)))],
     handle |-> Len(m.heap) + 1]

\* a speculative tick made on the board at h itself, with no clone taken
board_in_place(m, h, seed) ==
    [mem |-> store(m, h, [deref(m, h) EXCEPT !.rng = seed]), handle |-> h]

\* let mut board = board.clone(); board.rng = StdRng::from_rng(&mut rng):
\* the board a speculative tick is made on
speculative_board(m, h, seed) ==
    LET c == clone_at(m, h)
    IN  [mem |-> store(c.mem, c.handle, [deref(c.mem, c.handle) EXCEPT !.rng = seed]),
         handle |-> c.handle]

\* a score that counts the apples of every snake
apple_score_of_all(score, depth, log) ==
    score + Cardinality({i \in DOMAIN log : log[i].type = "AppleEaten"})
                * (ScoreUnit \div (depth + 1))

\* the score after the events of a speculative tick: 1 / (depth + 1) more
\* for each AppleEaten event of snake 0
apple_score(score, depth, log) ==
    score + Cardinality({i \in DOMAIN log : log[i] = AppleEaten(0)})
                * (ScoreUnit \div (depth + 1))

\* ------------------------------------------------------- leaf evaluation
\* const BAD_SCORE
BAD_SCORE == -1000

\* the least common multiple of the flood fill's caps, 2 * length
RECURSIVE Gcd(_, _)
Gcd(a, b) == IF b = 0 THEN a ELSE Gcd(b, a % b)

CapLcm[n \in 0 .. MaxLen] ==
    IF n = 0 THEN 1 ELSE (CapLcm[n - 1] * 2 * n) \div Gcd(CapLcm[n - 1], 2 * n)

FloodDen == CapLcm[MaxLen]

HoleDen == 2 ^ MaxHoles

\* scores are f32 in the program; here they are exact, in units of
\* 1 / Scale: every score met is a multiple of it
Scale == ScoreUnit * FloodDen * HoleDen

\* Ok(Cell::Empty | Cell::Apple { .. }) = board.get(pos)
open(b, pos) == get(b, pos).cell \in {"Empty", "Apple"}

\* the for loop over Direction::ALL of the flood fill, from direction k on:
\* a position seen before is skipped; a new one is marked visited, queued
\* when it is empty or an apple, and sets found_tail when it is part 0 of
\* snake 0
RECURSIVE fill_dirs(_, _, _, _)
fill_dirs(b, pos, st, k) ==
    IF k > Len(ALL) THEN st
    ELSE LET next_pos == VecAdd(pos, DIR(ALL[k]))
             cell == get(b, next_pos)
         IN  IF next_pos \in st.visited THEN fill_dirs(b, pos, st, k + 1)
             ELSE fill_dirs(b, pos,
                    [queue |-> IF cell.cell \in {"Empty", "Apple"}
                               THEN Append(st.queue, next_pos) ELSE st.queue,
                     visited |-> st.visited \cup {next_pos},
                     found_tail |-> st.found_tail
                                     \/ (cell.cell = "Snake" /\ cell.id = 0 /\ cell.part = 0)],
                    k + 1)

\* while let Some(pos) = queue.pop_front(): the loop ends with the queue, or
\* with found_tail set once max_search positions were visited
RECURSIVE fill(_, _, _)
fill(b, st, max_search) ==
    IF st.queue = <<>> THEN st
    ELSE LET after == fill_dirs(b, Head(st.queue), [st EXCEPT !.queue = Tail(@)], 1)
         IN  IF Cardinality(after.visited) >= max_search
             THEN [after EXCEPT !.found_tail = TRUE]
             ELSE fill(b, after, max_search)

\* the flood fill of eval_board from the head of a snake
flood(b, snake) ==
    fill(b, [queue |-> <<snake.head>>, visited |-> {snake.head}, found_tail |-> FALSE],
         Len(snake.parts) * 2)

\* the empty and apple cells none of whose four neighbours is empty or apple
holes(b) ==
    {pos \in Cells(b) :
        /\ open(b, pos)
        /\ \A k \in DOMAIN ALL : ~open(b, VecAdd(pos, DIR(ALL[k])))}

Min(a, b) == IF a <= b THEN a ELSE b

\* the first part of eval_board, which does not depend on the accumulated
\* score: whether there is a snake, what the flood fill from the head of
\* snake `id` found, and the number of holes of the board
survey(b, id, pockets) ==
    IF DOMAIN snakes(b) = {}
    THEN [snake |-> FALSE, found_tail |-> FALSE, visited |-> 0, max_search |-> 1,
          pushed |-> 0, pockets |-> pockets]
    ELSE LET snake == snakes(b)[id]
             done == flood(b, snake)
         IN  [snake |-> TRUE,
              found_tail |-> done.found_tail,
              visited |-> Cardinality(done.visited),
              max_search |-> Len(snake.parts) * 2,
              pushed |-> Cardinality({pos \in done.visited \ {snake.head} : open(b, pos)}),
              pockets |-> pockets]

\* an evaluation that looks into the sink it writes to
judge_reading_sink(seen, acc, sink) ==
    [score |-> acc + (IF sink.given THEN Scale ELSE 0), sink |-> sink]

\* the second part of eval_board: the points go to the sink, and the score
\* is BAD_SCORE + apple_score without a snake or a found tail, and
\* flood_fill + apple_score * 2.0 + hole_score * 2.0 otherwise
judge(seen, acc, sink) ==
    LET flood_fill == Min(seen.visited, seen.max_search) * (FloodDen \div seen.max_search)
                         * ScoreUnit * HoleDen
        hole_score == (HoleDen \div (2 ^ seen.pockets)) * ScoreUnit * FloodDen
        written == IF sink.given THEN [sink EXCEPT !.points = @ + seen.pushed] ELSE sink
    IN  IF ~seen.snake THEN [score |-> BAD_SCORE * Scale + acc, sink |-> sink]
        ELSE IF ~seen.found_tail THEN [score |-> BAD_SCORE * Scale + acc, sink |-> written]
        ELSE [score |-> flood_fill + acc * 2 + hole_score * 2, sink |-> written]

\* TreeSearch::eval_board with `id` the snake that snakes.into_iter().next()
\* gives: the score, and the sink with the points pushed to it
eval_board(b, acc, id, sink) ==
    judge(survey(b, id, Cardinality(holes(b))), acc, sink)

\* the snake snakes.into_iter().next() may give: the map has no order
first_snake(b) == DOMAIN snakes(b)

\* the nodes of the graph chose_move builds first: the cells that are no wall
graph_nodes(b) == Cells(b) \ b.walls

\* cycle_basis starts from node 0 and indexes the graph with it: without a
\* node the index is out of range
cycle_basis_panics(b) == graph_nodes(b) = {}

\* the sink a call may be given: none, or the empty AIGizmos::default()
Sinks == {NoSink, [given |-> TRUE, points |-> 0]}

\* chose_move is called on the live board: the cycle basis of the board is
\* computed first; then without snake 0 the call fails at once, otherwise
\* the queue starts with a clone of the board
StartSearch ==
    /\ pc = "Idle"
    /\ answer = "None"
    /\ root' = board
    /\ gizmos' \in Sinks
    /\ IF cycle_basis_panics(board)
       THEN /\ pc' = "Panicked"
            /\ UNCHANGED <<heap, queue, final_boards, cur, dirs, origin, answer>>
       ELSE IF 0 \notin DOMAIN snakes(board)
       THEN /\ answer' = "Err"
            /\ UNCHANGED <<heap, queue, final_boards, pc, cur, dirs, origin>>
       ELSE LET c == clone_at(Mem, 0)
            IN  /\ heap' = c.mem.heap
                /\ queue' = <<BoardEval(c.handle, 0, 0, <<>>)>>
                /\ final_boards' = <<>>
                /\ pc' = "Loop"
                /\ UNCHANGED <<cur, dirs, origin, answer>>
    /\ UNCHANGED engine_vars
    /\ UNCHANGED <<scores, chosen, acc_in, looked, value, graph_vars, app_vars>>

\* while let Some(board_eval) = queue.pop_front(): a board without snake 0
\* is dropped
\* a loop that goes on to the next board whatever the popped one holds
always_continue(b) == TRUE

\* match snakes.get(&0) { Some(snake) => snake, None => continue }
continues(b) == 0 \notin DOMAIN snakes(b)

PopEval ==
    /\ pc = "Loop"
    /\ queue # <<>>
    /\ queue' = Tail(queue)
    /\ IF continues(deref(Mem, Head(queue).board))
       THEN UNCHANGED <<pc, cur, dirs, origin>>
       ELSE /\ pc' = "Expanding"
            /\ cur' = Head(queue)
            /\ dirs' = 1
            /\ origin' = deref(Mem, Head(queue).board)
    /\ UNCHANGED <<heap, final_boards, root, answer>>
    /\ UNCHANGED engine_vars
    /\ UNCHANGED <<eval_vars, graph_vars, app_vars>>

\* a loop that expands every direction
skips_none(snake, dir) == FALSE

\* if dir == snake.dir.opposite() { continue; }
skips(snake, dir) == dir = opposite(snake.dir)

\* a child as deep as its parent
same_depth(depth) == depth

\* depth: depth + 1
child_depth(depth) == depth + 1

\* a limit met one ply early
at_limit_one_early(depth) == depth = max_depth - 1

\* depth == self.max_depth, with the depth of the board being expanded
at_max_depth(depth) == depth = max_depth

\* one round of for dir in Direction::ALL: the reverse of the snake's
\* direction is skipped; otherwise a clone is ticked with dir for snake 0
\* and the result goes to final_boards or to the back of the queue
ExpandDir ==
    /\ pc = "Expanding"
    /\ dirs <= Len(ALL)
    /\ LET dir == ALL[dirs]
           snake == snakes(deref(Mem, cur.board))[0]
       IN  IF skips(snake, dir)
           THEN /\ dirs' = dirs + 1
                /\ UNCHANGED <<board, heap, queue, final_boards, pc>>
           ELSE \E seed \in Seeds :
                  LET spec == speculative_board(Mem, cur.board, seed)
                  IN  \E out \in tick_board(deref(spec.mem, spec.handle),
                                            <<dir, None, None, None>>) :
                        LET after == store(spec.mem, spec.handle, out.board)
                            child == BoardEval(spec.handle,
                                               apple_score(cur.score, cur.depth, out.events),
                                               child_depth(cur.depth),
                                               Append(cur.history, dir))
                        IN  /\ board' = after.live
                            /\ heap' = after.heap
                            /\ IF out.result # "Ok"
                               THEN /\ pc' = "Panicked"
                                    /\ UNCHANGED <<queue, final_boards, dirs>>
                               ELSE /\ dirs' = dirs + 1
                                    /\ pc' = pc
                                    /\ IF GameOver \in {out.events[i] : i \in DOMAIN out.events}
                                          \/ at_max_depth(cur.depth)
                                       THEN /\ final_boards' = Append(final_boards, child)
                                            /\ queue' = queue
                                       ELSE /\ queue' = Append(queue, child)
                                            /\ final_boards' = final_boards
    /\ UNCHANGED <<cur, origin, root, answer>>
    /\ UNCHANGED <<events, result, slots, given, prev, moved, gone, replica, replica_out, ticks>>
    /\ UNCHANGED <<eval_vars, graph_vars, app_vars>>

\* after the for loop the time is within max_time: the while loop goes on
InTime ==
    /\ pc = "Expanding"
    /\ dirs > Len(ALL)
    /\ pc' = "Loop"
    /\ UNCHANGED <<heap, queue, final_boards, cur, dirs, origin, root, answer>>
    /\ UNCHANGED engine_vars
    /\ UNCHANGED <<eval_vars, graph_vars, app_vars>>

\* a cutoff that drops the boards still in the queue
cutoff_dropping_queue(final, waiting) == final

\* final_boards.extend(queue)
extend(final, waiting) == final \o waiting

\* after the for loop the time is past max_time: the queue is moved to
\* final_boards and the while loop ends
TimedOut ==
    /\ pc = "Expanding"
    /\ dirs > Len(ALL)
    /\ final_boards' = extend(final_boards, queue)
    /\ queue' = <<>>
    /\ pc' = "Evaluate"
    /\ UNCHANGED <<heap, cur, dirs, origin, root, answer>>
    /\ UNCHANGED engine_vars
    /\ UNCHANGED <<eval_vars, graph_vars, app_vars>>

\* the while loop ends with the queue empty
QueueEmpty ==
    /\ pc = "Loop"
    /\ queue = <<>>
    /\ pc' = "Evaluate"
    /\ UNCHANGED <<heap, queue, final_boards, cur, dirs, origin, root, answer>>
    /\ UNCHANGED engine_vars
    /\ UNCHANGED <<eval_vars, graph_vars, app_vars>>

\* the scores of the final boards before the evaluation, and the sink
unscored(fb, sink) ==
    [scores |-> [i \in DOMAIN fb |-> fb[i].score * FloodDen * HoleDen], sink |-> sink]

\* for board in final_boards.iter_mut() { board.score = eval_board(..)? }
\* from board k on: every way the loop may go, as the scores and the sink
\* it ends with
RECURSIVE eval_pass(_, _, _, _)
eval_pass(ways, fb, m, k) ==
    IF k > Len(fb) THEN ways
    ELSE LET b == deref(m, fb[k].board)
             ids == IF first_snake(b) = {} THEN {-1} ELSE first_snake(b)
             pockets == Cardinality(holes(b))
             seen == {survey(b, id, pockets) : id \in ids}
             one(w, look) ==
                 LET r == judge(look, w.scores[k], w.sink)
                 IN  [scores |-> [w.scores EXCEPT ![k] = r.score], sink |-> r.sink]
         IN  eval_pass({one(w, look) : w \in ways, look \in seen}, fb, m, k + 1)

\* a selection that takes the first final board
first_by(sc) == 1

\* Iterator::max_by: the index of the last of the greatest scores
max_by(sc) ==
    CHOOSE i \in DOMAIN sc :
        /\ \A j \in DOMAIN sc : sc[j] <= sc[i]
        /\ \A j \in DOMAIN sc : j > i => sc[j] < sc[i]

\* chose_move returns: Err when there is no final board, a move otherwise;
\* the boards it owns are dropped
Return ==
    /\ pc = "Evaluate"
    /\ answer' = IF final_boards = <<>> THEN "Err" ELSE "Ok"
    /\ \E out \in eval_pass(eval_pass({unscored(final_boards, gizmos)},
                                       final_boards, Mem, 1),
                             final_boards, Mem, 1) :
          /\ scores' = out.scores
          /\ gizmos' = out.sink
          /\ chosen' = IF final_boards = <<>> THEN None
                       ELSE final_boards[max_by(out.scores)].history[1]
    /\ pc' = "Idle"
    /\ heap' = <<>>
    /\ queue' = <<>>
    /\ final_boards' = <<>>
    /\ UNCHANGED <<cur, dirs, origin, root>>
    /\ UNCHANGED engine_vars
    /\ UNCHANGED <<acc_in, looked, value, graph_vars, app_vars>>

\* a tick of the live board before chose_move is called
EarlyTick == ticks < SearchTicks /\ answer = "None" /\ board.players > 0 /\ Tick

\* GamePlugin::build: the board starts as Board::empty(0, 0)
InitApp ==
    /\ board = empty_board(0, 0)
    /\ replica = empty_board(0, 0)
    /\ prev = empty_board(0, 0)
    /\ moved = empty_board(0, 0)
    /\ events = <<>>
    /\ result = "New"
    /\ slots = 0
    /\ given = <<>>
    /\ gone = {}
    /\ replica_out = [events |-> <<>>, result |-> "New"]
    /\ ticks = 0
    /\ heap = <<>>
    /\ queue = <<>>
    /\ final_boards = <<>>
    /\ pc = "Idle"
    /\ cur = NoEval
    /\ dirs = 0
    /\ origin = empty_board(0, 0)
    /\ root = empty_board(0, 0)
    /\ answer = "None"
    /\ gizmos = NoSink
    /\ scores = <<>>
    /\ chosen = None
    /\ acc_in = 0
    /\ looked = -1
    /\ value = <<>>
    /\ graph = <<>>
    /\ cycles = [status |-> "None", list |-> <<>>]
    /\ AppIdle

\* reset_game: the board becomes Board::new(settings.board_settings)
reset_game ==
    /\ pc = "Idle"
    /\ answer = "None"
    /\ board = empty_board(0, 0)
    /\ \E players \in 1 .. MaxPlayers, walls \in BOOLEAN, seed \in RngStates :
          /\ board' = new_board(players, walls, NumApples, seed)
          /\ replica' = clone(new_board(players, walls, NumApples, seed))
          /\ prev' = new_board(players, walls, NumApples, seed)
          /\ moved' = new_board(players, walls, NumApples, seed)
          /\ origin' = new_board(players, walls, NumApples, seed)
          /\ root' = new_board(players, walls, NumApples, seed)
    /\ UNCHANGED <<events, result, slots, given, gone, replica_out, ticks>>
    /\ UNCHANGED <<heap, queue, final_boards, pc, cur, dirs, answer>>
    /\ UNCHANGED <<eval_vars, graph_vars, app_vars>>

NextSearch ==
    \/ reset_game
    \/ EarlyTick
    \/ StartSearch
    \/ PopEval
    \/ ExpandDir
    \/ InTime
    \/ TimedOut
    \/ QueueEmpty
    \/ Return

SpecSearch == InitApp /\ [][NextSearch]_vars

\* the steps of the while loop of chose_move when max_time is never exceeded
LoopStep ==
    \/ PopEval
    \/ ExpandDir
    \/ InTime
    \/ QueueEmpty

NextUntimed ==
    \/ reset_game
    \/ EarlyTick
    \/ StartSearch
    \/ LoopStep
    \/ Return

\* one round of the for loop, whatever it makes: the steps ExpandDir takes,
\* told by where they lead
ForRound ==
    /\ pc = "Expanding"
    /\ dirs <= Len(ALL)
    /\ \/ dirs' = dirs + 1 /\ pc' = pc
       \/ dirs' = dirs /\ pc' = "Panicked"

\* chose_move with start_time.elapsed() > self.max_time never true: the
\* thread that runs the loop goes on running, statement after statement
SpecUntimed ==
    /\ InitApp
    /\ [][NextUntimed]_vars
    /\ WF_vars(PopEval)
    /\ WF_<<pc, dirs>>(ForRound)
    /\ WF_vars(InTime)
    /\ WF_vars(QueueEmpty)

\* the accumulated apple scores an evaluation is given: none, or one apple
\* eaten at the first move
AppleScores == {0, Scale}

\* a call of tick_board on a board not evaluated yet
EvalTick ==
    /\ value = <<>>
    /\ Tick

\* one call of eval_board on the board, without a sink: the snake looked at
\* is the one snakes.into_iter().next() gives
Evaluate ==
    /\ pc = "Idle"
    /\ value = <<>>
    /\ \E acc \in AppleScores :
         \E id \in IF first_snake(board) = {} THEN {-1} ELSE first_snake(board) :
            /\ acc_in' = acc
            /\ looked' = id
            /\ value' = <<eval_board(board, acc, id, NoSink).score>>
    /\ UNCHANGED <<engine_vars, search_vars, gizmos, scores, chosen, graph_vars, app_vars>>

NextEval ==
    \/ EvalTick
    \/ Evaluate

SpecEval == Init /\ [][NextEval]_vars

\* ------------------------------------------------------------ cycle_basis
\* most nodes of a graph given to cycle_basis, and most self loops in it
MaxNodes == 4

MaxLoops == 1

\* the orders a Vec may hold the elements of s in
Orders(s) ==
    {q \in [1 .. Cardinality(s) -> s] : \A i, j \in DOMAIN q : q[i] = q[j] => i = j}

\* the adjacency lists of nodes 0 .. k - 1 with the neighbours nb: the list
\* of node i is element i + 1
RECURSIVE lists(_, _)
lists(nb, k) ==
    IF k = 0 THEN {<<>>}
    ELSE {Append(g, q) : g \in lists(nb, k - 1), q \in Orders(nb[k - 1])}

\* graph[z]
neighbors(g, z) == g[z + 1]

\* a walk that ends before its first step
cycle_cut_short(pred, pn, p, cycle) == [ends |-> TRUE, cycle |-> cycle]

\* while !pn.contains(p) { cycle.push(*p); p = pred.get(p).unwrap(); }
\* cycle.push(*p): at the root, its own predecessor, the loop never ends
RECURSIVE cycle_from(_, _, _, _)
cycle_from(pred, pn, p, cycle) ==
    IF p \in pn THEN [ends |-> TRUE, cycle |-> Append(cycle, p)]
    ELSE IF pred[p] = p THEN [ends |-> FALSE, cycle |-> cycle]
    ELSE cycle_from(pred, pn, pred[p], Append(cycle, p))

\* for neighbor in graph[z].iter().copied(), from element k on
RECURSIVE for_neighbors(_, _, _, _)
for_neighbors(g, z, st, k) ==
    IF k > Len(neighbors(g, z)) \/ st.status # "Ok" THEN st
    ELSE LET neighbor == neighbors(g, z)[k]
         IN  IF neighbor \notin DOMAIN st.used
             THEN for_neighbors(g, z,
                    [st EXCEPT !.pred = (neighbor :> z) @@ @,
                               !.stack = Append(@, neighbor),
                               !.used = (neighbor :> {z}) @@ @],
                    k + 1)
             ELSE IF z = neighbor
             THEN for_neighbors(g, z, [st EXCEPT !.cycles = Append(@, <<z>>)], k + 1)
             ELSE IF neighbor \notin st.used[z]
             THEN LET found == cycle_from(st.pred, st.used[neighbor], st.pred[z],
                                          <<neighbor, z>>)
                  IN  IF found.ends
                      THEN for_neighbors(g, z,
                             [st EXCEPT !.cycles = Append(@, found.cycle),
                                        !.used[neighbor] = @ \cup {z}],
                             k + 1)
                      ELSE [st EXCEPT !.status = "Diverges"]
             ELSE for_neighbors(g, z, st, k + 1)

\* while !stack.is_empty() { let z = stack.pop().unwrap(); ... }
RECURSIVE walk(_, _)
walk(g, st) ==
    IF st.stack = <<>> \/ st.status # "Ok" THEN st
    ELSE LET z == st.stack[Len(st.stack)]
             popped == [st EXCEPT !.stack = SubSeq(@, 1, Len(@) - 1)]
         IN  walk(g, for_neighbors(g, z, popped, 1))

\* cycle_basis(graph): the walk starts from root_index = 0, and graph[0] is
\* out of range in a graph without nodes
cycle_basis(g) ==
    IF Len(g) = 0 THEN [status |-> "Panics", list |-> <<>>]
    ELSE LET done == walk(g, [stack |-> <<0>>, pred |-> (0 :> 0), used |-> (0 :> {}),
                              cycles |-> <<>>, status |-> "Ok"])
         IN  [status |-> done.status, list |-> done.cycles]

\* an undirected graph of at most MaxNodes nodes as a symmetric adjacency
\* list, each list in any order, with at most MaxLoops self loops
InitGraph ==
    /\ \E n \in 0 .. MaxNodes :
         \E E \in SUBSET {e \in SUBSET (0 .. n - 1) : Cardinality(e) = 2} :
           \E L \in {l \in SUBSET (0 .. n - 1) : Cardinality(l) <= MaxLoops} :
              graph \in lists([i \in 0 .. n - 1 |->
                                 {j \in 0 .. n - 1 : {i, j} \in E \/ (i = j /\ i \in L)}], n)
    /\ cycles = [status |-> "None", list |-> <<>>]
    /\ AppIdle
    /\ board = empty_board(BoardW, BoardH)
    /\ replica = empty_board(BoardW, BoardH)
    /\ prev = empty_board(BoardW, BoardH)
    /\ moved = empty_board(BoardW, BoardH)
    /\ events = <<>>
    /\ result = "New"
    /\ slots = 0
    /\ given = <<>>
    /\ gone = {}
    /\ replica_out = [events |-> <<>>, result |-> "New"]
    /\ ticks = 0
    /\ heap = <<>>
    /\ queue = <<>>
    /\ final_boards = <<>>
    /\ pc = "Idle"
    /\ cur = NoEval
    /\ dirs = 0
    /\ origin = empty_board(BoardW, BoardH)
    /\ root = empty_board(BoardW, BoardH)
    /\ answer = "None"
    /\ gizmos = NoSink
    /\ scores = <<>>
    /\ chosen = None
    /\ acc_in = 0
    /\ looked = -1
    /\ value = <<>>

\* one call of cycle_basis on the graph
CycleBasis ==
    /\ cycles.status = "None"
    /\ cycles' = cycle_basis(graph)
    /\ UNCHANGED <<engine_vars, search_vars, eval_vars, graph, app_vars>>

NextGraph == CycleBasis

SpecGraph == InitGraph /\ [][NextGraph]_vars

\* ------------------------------------------------------------ apple_system
\* most SpawnRandom events one run of apple_system is given
MaxSpawns == 2

\* a call of tick_board before apple_system is run on its own
SpawnTick ==
    /\ ~spawned.done
    /\ Tick

\* one run of apple_system on the board with n SpawnRandom events to handle
Spawn ==
    /\ pc = "Idle"
    /\ ~spawned.done
    /\ \E n \in 1 .. MaxSpawns :
          /\ spawned' = [asked |-> n, done |-> TRUE]
          /\ board' = spawn_apples(board, board.rng, n)
    /\ prev' = board
    /\ UNCHANGED <<events, result, slots, given, moved, gone, replica, replica_out, ticks>>
    /\ UNCHANGED <<search_vars, eval_vars, graph_vars, driver_vars, server_vars>>

NextSpawn ==
    \/ SpawnTick
    \/ Spawn

SpecSpawn == Init /\ [][NextSpawn]_vars

\* ------------------------------------------------- update_game, ai_system
\* agents with a player at the keys
MaxKeyboards == 2

\* most ticks update_game makes
DriverTicks == 1

\* most snakes of the game the driver runs
DriverPlayers == 2

\* reset_game has run with board_settings of at most DriverPlayers snakes
InitDriver ==
    /\ Init
    /\ \E players \in 1 .. DriverPlayers, walls \in BOOLEAN :
          board = new_board(players, walls, NumApples, 0)

\* most inputs update_game lets wait in one input_queue
QUEUE_CAP == 3

\* the first of the up, down, left and right keys of each SnakeInput that was
\* just pressed, None without one
KeySets == {k \in [1 .. SLOTS -> Inputs] : \A i \in 1 .. SLOTS : i > MaxKeyboards => k[i] = None}

\* update_game's key handling that pushes whatever key was pressed
press_any(q, key) ==
    IF Len(q) < QUEUE_CAP /\ key # None THEN Append(q, key) ELSE q

\* update_game's key handling for one input_queue
press(q, key) ==
    IF Len(q) < QUEUE_CAP /\ key # None
    THEN IF q # <<>>
         THEN IF key # q[Len(q)] /\ key # opposite(q[Len(q)])
              THEN Append(q, key)
              ELSE q
         ELSE Append(q, key)
    ELSE q

\* snake_system's key handling for the input_queue of a snake heading `forward`
snake_press(q, forward, key) ==
    LET last_in_queue == IF q # <<>> THEN q[Len(q)] ELSE forward
    IN  IF Len(q) < QUEUE_CAP /\ key # None
             /\ last_in_queue # opposite(key) /\ last_in_queue # key
        THEN Append(q, key)
        ELSE q

\* VecDeque::pop_front, and what it leaves
pop_front(q) ==
    IF q = <<>>
    THEN [input |-> None, rest |-> <<>>]
    ELSE [input |-> Head(q), rest |-> Tail(q)]

\* an ai_system that pushes its direction behind the inputs that wait
push_behind(q, ai, dir) == IF ai THEN Append(q, dir) ELSE q

\* ai_system's push of the direction chose_move returned
push_ai(q, ai, dir) == IF ai /\ q = <<>> THEN Append(q, dir) ELSE q

\* what chose_move may return for a board: Err without snake 0 or without a
\* final board, else the first direction of a final board
chose_move_answers(b) ==
    IF 0 \in DOMAIN snakes(b) THEN Direction \cup {"Err"} ELSE {"Err"}

\* a frame of update_game, run while the game is on: the timer, the keys, and
\* when the timer has just finished or the game is stepped by its inputs, the
\* inputs popped and the tick made with them
update_game ==
    /\ frame.phase = "update_game"
    /\ pc = "Idle"
    /\ ~board.game_over
    /\ ticks < DriverTicks
    /\ \E finished \in {f \in BOOLEAN : f => settings.do_game_tick}, keys \in KeySets :
          LET pressed == [i \in 1 .. SLOTS |-> press(input_queues[i], keys[i])]
              inputs == [i \in 1 .. SLOTS |-> pop_front(pressed[i]).input]
              alive == Cardinality(DOMAIN snakes(board))
          IN  /\ frame' = [phase |-> "ai_system", just_finished |-> finished]
              /\ IF finished \/ ~settings.do_game_tick
                 THEN /\ input_queues' = [i \in 1 .. SLOTS |-> pop_front(pressed[i]).rest]
                      /\ IF (\E i \in 1 .. alive : inputs[i] # None) \/ settings.do_game_tick
                         THEN Called({inputs}, TRUE)
                         ELSE UNCHANGED <<engine_vars, search_vars, eval_vars, graph_vars>>
                 ELSE /\ input_queues' = pressed
                      /\ UNCHANGED <<engine_vars, search_vars, eval_vars, graph_vars>>
    /\ UNCHANGED <<spawned, settings, server_vars>>

\* ai_system, run after update_game in every frame of the game
ai_system ==
    /\ frame.phase = "ai_system"
    /\ pc = "Idle"
    /\ frame' = [frame EXCEPT !.phase = "update_game"]
    /\ IF frame.just_finished \/ ~settings.do_game_tick
       THEN \E dir \in chose_move_answers(board) :
               input_queues' =
                   IF dir # "Err"
                   THEN [input_queues EXCEPT ![1] = push_ai(@, settings.ai, dir)]
                   ELSE input_queues
       ELSE UNCHANGED input_queues
    /\ UNCHANGED <<engine_vars, search_vars, eval_vars, graph_vars>>
    /\ UNCHANGED <<spawned, settings, server_vars>>

\* the settings changed from the menu
change_settings ==
    /\ pc = "Idle"
    /\ \E ai \in BOOLEAN, do_game_tick \in BOOLEAN :
          /\ settings' = [ai |-> ai, do_game_tick |-> do_game_tick]
          /\ settings' # settings
    /\ UNCHANGED <<engine_vars, search_vars, eval_vars, graph_vars>>
    /\ UNCHANGED <<spawned, input_queues, frame, server_vars>>

NextDriver ==
    \/ update_game
    \/ ai_system
    \/ change_settings

SpecDriver == InitDriver /\ [][NextDriver]_vars

\* ------------------------------------------------------------ bin/server.rs
\* most commands game_loop is given
ServerTicks == 3

\* the capacity of the channels of main and Client::new
CHANNEL_CAP == 1

\* the snakes of Board::new(BoardSettings::default()): game_loop passes
\* tick_board one move slot
SERVER_PLAYERS == 1

ClientIds == 1 .. MaxClients

\* game_loop has made its board
InitServer == Init /\ board = new_board(SERVER_PLAYERS, FALSE, NumApples, 0)

\* a sequence without the entries at the indexes of `delete`
without(seq, delete) ==
    LET keep == {i \in DOMAIN seq : i \notin delete}
        RECURSIVE pick(_)
        pick(i) == IF i > Len(seq) THEN <<>>
                   ELSE IF i \in keep THEN <<seq[i]>> \o pick(i + 1)
                   ELSE pick(i + 1)
    IN  pick(1)

\* the handler of c has ended: its Sender and its Receiver are dropped
dropped(c) == handlers[c].pc = "closed"

\* snake_ws: a websocket is connected and its handler spawned; the handler
\* makes its Client and comes to client_tx.send(client)
connect(c) ==
    /\ handlers[c].pc = "none"
    /\ handlers' = [handlers EXCEPT ![c].pc = "register"]
    /\ UNCHANGED <<game, register, game_commands, game_updates>>
    /\ UNCHANGED <<engine_vars, search_vars, eval_vars, graph_vars, spawned, driver_vars>>

\* snake_ws_handler: client_tx.send(client).await.unwrap() goes through, or
\* panics when game_loop has ended
handler_register(c) ==
    /\ handlers[c].pc = "register"
    /\ IF game.pc = "exited"
       THEN /\ handlers' = [handlers EXCEPT ![c].pc = "closed"]
            /\ UNCHANGED register
       ELSE /\ Len(register) < CHANNEL_CAP
            /\ register' = Append(register, c)
            /\ handlers' = [handlers EXCEPT ![c].pc = "select"]
    /\ UNCHANGED <<game, game_commands, game_updates>>
    /\ UNCHANGED <<engine_vars, search_vars, eval_vars, graph_vars, spawned, driver_vars>>

\* snake_ws_handler's select! takes game_updates.recv(): an update is passed
\* on to the session, which may fail, or the channel is closed
handler_update(c) ==
    /\ handlers[c].pc = "select"
    /\ \/ /\ game_updates[c] # <<>>
          /\ game_updates' = [game_updates EXCEPT ![c] = Tail(@)]
          /\ \E sent \in BOOLEAN :
                handlers' = [handlers EXCEPT ![c].pc = IF sent THEN "select" ELSE "closed"]
       \/ /\ game_updates[c] = <<>>
          /\ game.pc = "exited"
          /\ handlers' = [handlers EXCEPT ![c].pc = "closed"]
          /\ UNCHANGED game_updates
    /\ UNCHANGED <<game, register, game_commands>>
    /\ UNCHANGED <<engine_vars, search_vars, eval_vars, graph_vars, spawned, driver_vars>>

\* snake_ws_handler's select! takes msg_stream.recv() and the message is the
\* text of a GameCommands::Input: the handler comes to game_commands.send
handler_message(c) ==
    /\ handlers[c].pc = "select"
    /\ \E direction \in Direction :
          handlers' = [handlers EXCEPT ![c] = [pc |-> "send", command |-> direction]]
    /\ UNCHANGED <<game, register, game_commands, game_updates>>
    /\ UNCHANGED <<engine_vars, search_vars, eval_vars, graph_vars, spawned, driver_vars>>

\* snake_ws_handler: game_commands.send(command).await goes through once the
\* channel has room, or fails when game_loop has ended
handler_send(c) ==
    /\ handlers[c].pc = "send"
    /\ IF game.pc = "exited"
       THEN /\ handlers' = [handlers EXCEPT ![c] = [pc |-> "closed", command |-> None]]
            /\ UNCHANGED game_commands
       ELSE /\ Len(game_commands[c]) < CHANNEL_CAP
            /\ game_commands' = [game_commands EXCEPT ![c] = Append(@, handlers[c].command)]
            /\ handlers' = [handlers EXCEPT ![c] = [pc |-> "select", command |-> None]]
    /\ UNCHANGED <<game, register, game_updates>>
    /\ UNCHANGED <<engine_vars, search_vars, eval_vars, graph_vars, spawned, driver_vars>>

\* snake_ws_handler leaves its loop: a Close message, a text that is no
\* command, an error or the end of the stream, or no heartbeat for 10 s
handler_close(c) ==
    /\ handlers[c].pc = "select"
    /\ handlers' = [handlers EXCEPT ![c].pc = "closed"]
    /\ UNCHANGED <<game, register, game_commands, game_updates>>
    /\ UNCHANGED <<engine_vars, search_vars, eval_vars, graph_vars, spawned, driver_vars>>

\* game_loop's select! takes register_client.recv()
game_register ==
    /\ game.pc = "select"
    /\ register # <<>>
    /\ game' = [game EXCEPT !.clients = Append(@, Head(register))]
    /\ register' = Tail(register)
    /\ UNCHANGED <<handlers, game_commands, game_updates>>
    /\ UNCHANGED <<engine_vars, search_vars, eval_vars, graph_vars, spawned, driver_vars>>

\* Clients::next_command: the recv of a client whose handler has ended gives
\* None, and the client is removed
game_remove ==
    /\ game.pc = "select"
    /\ \E i \in DOMAIN game.clients :
          /\ game_commands[game.clients[i]] = <<>>
          /\ dropped(game.clients[i])
          /\ game' = [game EXCEPT !.clients = without(@, {i})]
    /\ UNCHANGED <<register, handlers, game_commands, game_updates>>
    /\ UNCHANGED <<engine_vars, search_vars, eval_vars, graph_vars, spawned, driver_vars>>

\* game_loop's select! takes clients.next_command(): the board is ticked with
\* the command's direction and game_loop comes to the broadcast, or ends when
\* the tick is refused
game_command ==
    /\ game.pc = "select"
    /\ ticks < ServerTicks
    /\ \E i \in DOMAIN game.clients :
          LET c == game.clients[i]
          IN  /\ game_commands[c] # <<>>
              /\ game_commands' = [game_commands EXCEPT ![c] = Tail(@)]
              /\ Called({<<Head(game_commands[c])>>}, TRUE)
    /\ game' = IF result' = "Ok"
               THEN [game EXCEPT !.pc = "broadcast", !.at = 1, !.delete = {}, !.update = ticks']
               ELSE [game EXCEPT !.pc = "exited", !.clients = <<>>]
    /\ UNCHANGED <<register, handlers, game_updates>>
    /\ UNCHANGED <<spawned, driver_vars>>

\* Clients::broadcast: game_updates.send(game_update.clone()).await for the
\* next client goes through once its channel has room, or fails when the
\* handler has ended
broadcast_send ==
    /\ game.pc = "broadcast"
    /\ game.at <= Len(game.clients)
    /\ LET c == game.clients[game.at]
       IN  IF dropped(c)
           THEN /\ game' = [game EXCEPT !.at = @ + 1, !.delete = @ \cup {game.at}]
                /\ UNCHANGED game_updates
           ELSE /\ Len(game_updates[c]) < CHANNEL_CAP
                /\ game_updates' = [game_updates EXCEPT ![c] = Append(@, game.update)]
                /\ game' = [game EXCEPT !.at = @ + 1]
    /\ UNCHANGED <<register, handlers, game_commands>>
    /\ UNCHANGED <<engine_vars, search_vars, eval_vars, graph_vars, spawned, driver_vars>>

\* Clients::broadcast: the clients whose send failed are removed, and
\* game_loop is back at its select!
broadcast_end ==
    /\ game.pc = "broadcast"
    /\ game.at > Len(game.clients)
    /\ game' = [game EXCEPT !.pc = "select", !.at = 0, !.delete = {},
                            !.clients = without(@, game.delete)]
    /\ UNCHANGED <<register, handlers, game_commands, game_updates>>
    /\ UNCHANGED <<engine_vars, search_vars, eval_vars, graph_vars, spawned, driver_vars>>

NextServer ==
    \/ \E c \in ClientIds : connect(c)
    \/ \E c \in ClientIds : handler_register(c)
    \/ \E c \in ClientIds : handler_update(c)
    \/ \E c \in ClientIds : handler_message(c)
    \/ \E c \in ClientIds : handler_send(c)
    \/ \E c \in ClientIds : handler_close(c)
    \/ game_register
    \/ game_remove
    \/ game_command
    \/ broadcast_send
    \/ broadcast_end

SpecServer == InitServer /\ [][NextServer]_vars

Next == Tick

Spec == Init /\ [][Next]_vars

NextShaped == ShapedTick

SpecShaped == Init /\ [][NextShaped]_vars

\* =================================================================
\* Properties of the engine
\* =================================================================
Range(seq) == {seq[i] : i \in DOMAIN seq}

\* the last call advanced the board
Advanced == result = "Ok"

\* the log of the last call damages or eliminates id
Hurt(id) ==
    \E i \in DOMAIN events :
        events[i].snake = id /\ events[i].type \in {"SnakeDamaged", "SnakeEliminated"}

GameOverEmitted ==
    \/ Advanced /\ GameOver \in Range(events)
    \/ result = "GameOverError"

\* C3: game-over terminality. Once a call has emitted GameOver every later
\* call, whatever its move tuple, fails with the game-over error and leaves
\* the board as it was.
Terminality ==
    [][GameOverEmitted =>
          (result' = "GameOverError" /\ events' = <<>> /\ board' = board)]_vars

\* C3 witness: a call with a full move tuple was refused after GameOver
TerminalityWitness ==
    /\ result = "GameOverError"
    /\ slots = board.players
    /\ board = prev
    /\ board.game_over

\* the head snake id moved to in the last call
NewHead(id) == moved.snakes[id].head

\* the three damage conditions, stated on the board after the moves
HeadOutside(id) ==
    \/ NewHead(id)[1] < 0 \/ NewHead(id)[1] >= prev.width
    \/ NewHead(id)[2] < 0 \/ NewHead(id)[2] >= prev.height

HeadOnObstacle(id) == NewHead(id) \in prev.walls

HeadOnBody(id) ==
    \E other \in DOMAIN moved.snakes :
        \E i \in 1 .. Len(moved.snakes[other].parts) :
            /\ moved.snakes[other].parts[i] = NewHead(id)
            /\ ~(other = id /\ i = Len(moved.snakes[id].parts))

\* the log holds SnakeDamaged{id, 0} directly followed by SnakeEliminated{id}
DamagedThenEliminated(id) ==
    \E i \in 1 .. Len(events) - 1 :
        events[i] = SnakeDamaged(id, 0) /\ events[i + 1] = SnakeEliminated(id)

Growth ==
    Advanced =>
        \A id \in DOMAIN board.snakes :
            Len(board.snakes[id].parts) =
                Len(prev.snakes[id].parts)
                    + (IF AppleEaten(id) \in Range(events) THEN 1 ELSE 0)

\* C5 witness: a snake ate an apple and lives
GrowthWitness ==
    /\ Advanced
    /\ \E id \in DOMAIN board.snakes :
          /\ AppleEaten(id) \in Range(events)
          /\ Len(board.snakes[id].parts) = INIT_LEN + 1

\* snake id moved its head onto the cell its own tail was on before the tick,
\* which held no apple
FollowsOwnTail(id) ==
    /\ Advanced
    /\ id \in DOMAIN prev.snakes
    /\ NewHead(id) = prev.snakes[id].parts[1]
    /\ NewHead(id) \notin prev.apples

\* C6 as claimed: a snake that follows its own tail is not damaged or
\* eliminated by that tick.
TailFollowingNeverHurts ==
    \A id \in 0 .. MaxPlayers - 1 :
        FollowsOwnTail(id) => (id \in DOMAIN board.snakes /\ ~Hurt(id))

\* C6 amended: a snake that follows its own tail is eliminated by that tick
\* exactly when another snake's new head lands on the same cell.
TailFollowing ==
    \A id \in 0 .. MaxPlayers - 1 :
        FollowsOwnTail(id) =>
            ((id \notin DOMAIN board.snakes \/ Hurt(id))
                <=> \E other \in (DOMAIN moved.snakes) \ {id} :
                        NewHead(other) = NewHead(id))

\* C6 witness: a snake followed its own tail and lives
TailFollowingWitness ==
    \E id \in DOMAIN board.snakes : FollowsOwnTail(id) /\ ~Hurt(id)

GameOverCount == Cardinality({i \in DOMAIN events : events[i] = GameOver})

\* GameOver is emitted at most once, as the last event of a log, and in one
\* call only
GameOverOnceAndLast ==
    /\ GameOverCount <= 1
    /\ GameOver \in Range(events) => events[Len(events)] = GameOver
    /\ GameOver \in Range(events) => ~prev.game_over

\* C8 as claimed: a tick emits GameOver exactly when the snakes surviving it
\* are at or below the minimum, 1 for a single-player game and the
\* multiplayer floor otherwise; at most once and as the last event.
GameOverAtOrBelowOne ==
    Advanced =>
        /\ GameOver \in Range(events)
              <=> Cardinality(DOMAIN board.snakes)
                     <= (IF board.players = 1 THEN 1 ELSE MULTI_FLOOR)
        /\ GameOverOnceAndLast

\* C8 amended: a tick emits GameOver exactly when no snake survives it in a
\* single-player game, or no more than the multiplayer floor survive it
\* otherwise; at most once and as the last event.
GameOverEmission ==
    Advanced =>
        /\ GameOver \in Range(events)
              <=> Cardinality(DOMAIN board.snakes)
                     <= (IF board.players = 1 THEN 0 ELSE MULTI_FLOOR)
        /\ GameOverOnceAndLast

\* C8 witness: a multiplayer tick that eliminated a snake, left one, and
\* ended its log with GameOver
GameOverEmissionWitness ==
    /\ Advanced
    /\ board.players > 1
    /\ Cardinality(DOMAIN board.snakes) = MULTI_FLOOR
    /\ Len(events) >= 3
    /\ events[Len(events)] = GameOver

\* C9: in a single-snake game a tick that does not eliminate the snake does
\* not emit GameOver; while the snake is alive it is on the board at the
\* start of every tick and a call with one move slot succeeds; GameOver
\* comes only with the tick that eliminates the snake.
SinglePlayer ==
    board.players = 1 =>
        /\ Advanced => (GameOver \in Range(events) <=> 0 \notin DOMAIN board.snakes)
        /\ 0 \in DOMAIN board.snakes <=> ~board.game_over
        /\ (result # "New" /\ 0 \in DOMAIN prev.snakes /\ slots = 1) => Advanced

\* C9 witness: the single snake moved twice, lives, and no GameOver came
SinglePlayerWitness ==
    /\ board.players = 1
    /\ ticks >= 2
    /\ Advanced
    /\ slots = 1
    /\ 0 \in DOMAIN board.snakes
    /\ GameOver \notin Range(events)

\* C10: event order. In the log of one call every AppleEaten event comes
\* before every SnakeDamaged and SnakeEliminated event, and within each of
\* the two groups the ids ascend.
EventOrder ==
    \A i, j \in DOMAIN events :
        i < j =>
            /\ events[j].type = "AppleEaten" => events[i].type = "AppleEaten"
            /\ (events[i].type = "AppleEaten" /\ events[j].type = "AppleEaten")
                  => events[i].snake < events[j].snake
            /\ ( /\ events[i].type \in {"SnakeDamaged", "SnakeEliminated"}
                 /\ events[j].type \in {"SnakeDamaged", "SnakeEliminated"} )
                  => events[i].snake <= events[j].snake

\* C10 witness: a log with an apple eaten and two snakes eliminated
EventOrderWitness ==
    /\ \E i \in DOMAIN events : events[i].type = "AppleEaten"
    /\ Cardinality(Eliminated(events)) >= 2

\* C2: clone isolation. While chose_move runs, the live board is as it was
\* when chose_move cloned it, every board in the queue or in final_boards is
\* a board of its own, and the board being expanded is as it was when it
\* was taken from the queue, whatever ticks its clones have had.
Isolation ==
    /\ pc # "Idle" => board = root
    /\ pc = "Expanding" => deref(Mem, cur.board) = origin
    /\ \A i \in DOMAIN queue : queue[i].board # 0
    /\ \A i \in DOMAIN final_boards : final_boards[i].board # 0

\* C2 witness: chose_move has ticked a clone of a clone, the expanded board
\* and the live board are as they were, and the ticked clone differs from both
IsolationWitness ==
    /\ pc = "Expanding"
    /\ cur.depth = 1
    /\ final_boards # <<>>
    /\ board = root
    /\ deref(Mem, cur.board) = origin
    /\ \E i \in DOMAIN final_boards :
          /\ deref(Mem, final_boards[i].board) # origin
          /\ deref(Mem, final_boards[i].board).snakes # board.snakes

\* the new heads of snakes a and b landed on one cell that was empty before
\* the tick
HeadOn(a, b) ==
    /\ Advanced
    /\ a \in DOMAIN moved.snakes
    /\ b \in DOMAIN moved.snakes
    /\ a < b
    /\ NewHead(a) = NewHead(b)
    /\ get(prev, NewHead(a)).cell = "Empty"

\* C11: head-on collision. When the new heads of two snakes land on the same
\* previously empty cell, both snakes are off the board after the tick and
\* the log holds SnakeDamaged, SnakeEliminated of the lower id before
\* SnakeDamaged, SnakeEliminated of the higher id.
HeadOnCollision ==
    \A a, b \in 0 .. MaxPlayers - 1 :
        HeadOn(a, b) =>
            /\ a \notin DOMAIN board.snakes
            /\ b \notin DOMAIN board.snakes
            /\ \E i, j \in DOMAIN events :
                  /\ i + 1 < j
                  /\ j + 1 <= Len(events)
                  /\ events[i] = SnakeDamaged(a, 0)
                  /\ events[i + 1] = SnakeEliminated(a)
                  /\ events[j] = SnakeDamaged(b, 0)
                  /\ events[j + 1] = SnakeEliminated(b)

\* C11 witness: two snakes met head-on on an empty cell while a third lived on
HeadOnCollisionWitness ==
    /\ \E a, b \in 0 .. MaxPlayers - 1 : HeadOn(a, b)
    /\ DOMAIN board.snakes # {}

\* the unit vector of a direction
Unit(d) ==
    CASE d = Up -> <<0, 1>>
      [] d = Down -> <<0, -1>>
      [] d = Left -> <<-1, 0>>
      [] d = Right -> <<1, 0>>

\* the move the last call supplied for snake id
Supplied(id) == given[id + 1]

\* the supplied move is taken: it is present and not the reverse of the
\* snake's direction
Taken(id) ==
    /\ Supplied(id) # None
    /\ Supplied(id) # opposite(prev.snakes[id].dir)

\* C12: move resolution. For every snake alive before a tick, a supplied
\* move that is not the exact reverse of its direction gives new head = old
\* head + that direction and becomes its direction; with no move or the
\* exact reverse the new head is old head + current direction and the
\* direction is unchanged.
MoveResolution ==
    Advanced =>
        \A id \in DOMAIN prev.snakes :
            LET old == prev.snakes[id]
                new == moved.snakes[id]
                d == IF Taken(id) THEN Supplied(id) ELSE old.dir
            IN  /\ new.head = <<old.head[1] + Unit(d)[1], old.head[2] + Unit(d)[2]>>
                /\ new.dir = d

\* C12 witness: a snake that had turned was given the reverse of its new
\* direction and went straight on, while another move was taken
MoveResolutionWitness ==
    /\ Advanced
    /\ \E id \in DOMAIN prev.snakes :
          /\ prev.snakes[id].dir \in {Up, Down}
          /\ Supplied(id) = opposite(prev.snakes[id].dir)
          /\ id \in DOMAIN board.snakes
    /\ \E id \in DOMAIN prev.snakes :
          /\ Taken(id)
          /\ Supplied(id) # prev.snakes[id].dir

\* the last call was made on a board whose game was not over
CalledInGame == result # "New" /\ ~prev.game_over

\* a refused call leaves the board as it was and logs nothing
RefusedUnchanged == result = "InputError" => (board = prev /\ events = <<>>)

Placed ==
    IF result = "New" THEN board.apples
    ELSE IF Advanced THEN board.apples \ moved.apples
    ELSE {}

NoOverlap ==
    \A a, b \in DOMAIN board.snakes :
        \A i \in DOMAIN board.snakes[a].parts, j \in DOMAIN board.snakes[b].parts :
            (a # b \/ i # j) => board.snakes[a].parts[i] # board.snakes[b].parts[j]

\* C15 witness: after a second tick two snakes are on the board, one of them
\* grown, and the tick took a snake off the board
NoOverlapWitness ==
    /\ Advanced
    /\ ticks >= 2
    /\ Cardinality(DOMAIN board.snakes) >= 2
    /\ \E id \in DOMAIN board.snakes : Len(board.snakes[id].parts) > INIT_LEN
    /\ Eliminated(events) # {}

\* the four unit vectors
UnitVectors == {<<0, 1>>, <<0, -1>>, <<-1, 0>>, <<1, 0>>}

\* C16: snake shape. Every snake on the board has at least one part, its
\* head is the last entry of parts, and consecutive parts differ by one of
\* the four unit vectors.
Shape ==
    \A id \in DOMAIN board.snakes :
        LET s == board.snakes[id]
        IN  /\ Len(s.parts) >= 1
            /\ s.head = s.parts[Len(s.parts)]
            /\ \A i \in 1 .. Len(s.parts) - 1 :
                  <<s.parts[i + 1][1] - s.parts[i][1],
                    s.parts[i + 1][2] - s.parts[i][2]>> \in UnitVectors

\* C16 witness: a snake that has turned twice and grown
ShapeWitness ==
    /\ Advanced
    /\ \E id \in DOMAIN board.snakes :
          LET s == board.snakes[id]
          IN  /\ Len(s.parts) > INIT_LEN
              /\ s.parts[2][2] # s.parts[1][2] \/ s.parts[3][2] # s.parts[2][2]
              /\ s.dir # prev.snakes[id].dir

Around == (-1 .. board.width) \X (-1 .. board.height)

\* C18: bounds. Board::get fails with OutOfBounds exactly for the coordinates
\* outside [0, width) x [0, height) and gives one of Empty, Apple, Wall,
\* Snake for every coordinate inside.
Bounds ==
    \A pos \in Around :
        IF pos[1] \in 0 .. board.width - 1 /\ pos[2] \in 0 .. board.height - 1
        THEN get(board, pos).cell \in {"Empty", "Apple", "Wall", "Snake"}
        ELSE get(board, pos).cell = "OutOfBounds"

\* C18 witness: after a tick the board holds a cell of each kind
BoundsWitness ==
    /\ Advanced
    /\ \A kind \in {"Empty", "Apple", "Wall", "Snake"} :
          \E pos \in Around : get(board, pos).cell = kind
    /\ get(board, <<board.width, 0>>).cell = "OutOfBounds"
    /\ get(board, <<0, -1>>).cell = "OutOfBounds"

\* chose_move on a board without snake 0 ends, and ends with Err
FailsWithoutSnake ==
    /\ pc = "Panicked" => 0 \in DOMAIN snakes(root)
    /\ (answer # "None" /\ 0 \notin DOMAIN snakes(root)) => answer = "Err"

\* chose_move with a board in final_boards after the loop returns a move
MoveWhenFinal ==
    (pc = "Evaluate" /\ final_boards # <<>>) => answer' = "Ok"

\* C19: no decision. chose_move ends with Err, and without a panic, when
\* snake 0 is not on the board it is called on, whatever the board, the empty
\* board of width and height 0 included; it ends with a move whenever
\* final_boards holds a board after the loop.
NoDecision == []FailsWithoutSnake /\ [][MoveWhenFinal]_vars

\* the boards of the root's moves: one for each direction but the reverse
RootMoves == Len(ALL) - 1

\* the while loop ends only after the root has been popped and expanded
RootExpandedFirst ==
    pc = "Evaluate" => Len(heap) >= 1 + RootMoves

\* the step that finds the time past max_time moves the whole queue to
\* final_boards, which then holds at least the boards of the last expansion
CutoffKeepsQueue ==
    (pc = "Expanding" /\ pc' = "Evaluate") =>
        /\ queue' = <<>>
        /\ final_boards' = final_boards \o queue
        /\ Len(final_boards') >= RootMoves

\* chose_move called with snake 0 on a board that is not over has answered
CalledAlive == answer # "None" /\ 0 \in DOMAIN snakes(root) /\ ~root.game_over

\* chose_move called with snake 0 on a board that is not over returns a move
AlwaysMoves == CalledAlive => answer = "Ok"

\* the loop ends without a final board only when the queue has run empty, no
\* board made is over, and the last board made has lost snake 0
NoFinalOnlyWhenLost ==
    (pc = "Evaluate" /\ final_boards = <<>>) =>
        /\ queue = <<>>
        /\ \A h \in DOMAIN heap : ~heap[h].game_over
        /\ 0 \notin DOMAIN snakes(heap[Len(heap)])

\* C20 as stated: anytime search. Whatever the time limit, from a board with
\* snake 0 on it that is not over the root is expanded before the time is
\* first tested, the boards still queued at the cutoff are moved to
\* final_boards, and chose_move returns a move.
AnytimeAlwaysMoves ==
    []RootExpandedFirst /\ [][CutoffKeepsQueue]_vars /\ []AlwaysMoves

\* C20: anytime search. Whatever the time limit, from a board with snake 0
\* on it that is not over the root is expanded before the time is first
\* tested and the boards still queued at the cutoff are moved to
\* final_boards, so that a search that is cut off returns a move; a search that
\* is not cut off returns a move when it has a final board, and has none only
\* when its lines of play have ended with snake 0 eliminated and the game
\* going on.
Anytime ==
    /\ []RootExpandedFirst
    /\ [][CutoffKeepsQueue]_vars
    /\ [][MoveWhenFinal]_vars
    /\ []NoFinalOnlyWhenLost

\* the time is found past max_time right after the root's expansion, every
\* move of the root has eliminated snake 0, and the three boards are final
AnytimeWitness ==
    /\ pc = "Evaluate"
    /\ Len(heap) = 1 + RootMoves
    /\ Len(final_boards) = RootMoves
    /\ \A i \in DOMAIN final_boards :
          0 \notin DOMAIN snakes(heap[final_boards[i].board])

\* C25: every speculative tick succeeds. Called on a board with snake 0 on
\* it, over or not, chose_move never ticks a board that is over and never
\* gives tick_board fewer slots than snakes, so it never panics: it ends
\* with a move or with Err.
SpeculativeTicksSucceed ==
    /\ SLOTS >= MaxPlayers
    /\ (pc = "Panicked" => 0 \notin DOMAIN snakes(root))

\* the step that pops the front of the queue
Popped == pc = "Loop" /\ queue # <<>> /\ queue' = Tail(queue)

\* the handles of the boards waiting in the queue or kept as final
Kept ==
    {queue[i].board : i \in DOMAIN queue}
        \cup {final_boards[i].board : i \in DOMAIN final_boards}

\* C28 as stated: no branch is dropped. Every board popped from the queue is
\* expanded, the boards on which snake 0 was eliminated without GameOver
\* included, and a cutoff moves every queued board to final_boards.
NoBranchDropped ==
    [][Popped => pc' = "Expanding"]_vars /\ [][CutoffKeepsQueue]_vars

\* a popped board with snake 0 on it is expanded; one without is left out of
\* the queue and of final_boards, and it is never a board that is over
PoppedExpandedOrGone ==
    Popped =>
        LET b == deref(Mem, Head(queue).board)
        IN  IF 0 \in DOMAIN snakes(b)
            THEN pc' = "Expanding" /\ cur' = Head(queue)
            ELSE /\ pc' = "Loop"
                 /\ final_boards' = final_boards
                 /\ Head(queue).board \notin {queue'[i].board : i \in DOMAIN queue'}
                 /\ ~b.game_over

\* C28: the branches that are dropped. A popped board is expanded when snake
\* 0 is on it; a popped board on which snake 0 was eliminated without
\* GameOver is dropped, neither expanded nor final; a cutoff moves every
\* board still queued to final_boards.
BranchesDropped ==
    [][PoppedExpandedOrGone]_vars /\ [][CutoffKeepsQueue]_vars

\* a board made by the search without snake 0 on it has been popped and
\* dropped: it is neither queued nor final, and the loop goes on
BranchesDroppedWitness ==
    /\ pc = "Loop"
    /\ \E h \in DOMAIN heap :
          /\ h > 1
          /\ 0 \notin DOMAIN snakes(heap[h])
          /\ h \notin Kept

\* the boards the search holds, queued or final
Held ==
    {queue[i] : i \in DOMAIN queue} \cup {final_boards[i] : i \in DOMAIN final_boards}

\* C29 as stated: depth cutoff. No board of the search, queued or final, has
\* a history of more than max_depth moves, and none is more than max_depth
\* ticks away from the root.
DepthCutoff ==
    \A e \in Held : Len(e.history) <= max_depth /\ e.depth <= max_depth

\* the depth of a board is the length of its history; queued boards are at
\* most max_depth deep, final boards at most max_depth + 1
DepthBound ==
    /\ \A e \in Held : e.depth = Len(e.history)
    /\ \A i \in DOMAIN queue : queue[i].depth <= max_depth
    /\ \A i \in DOMAIN final_boards : final_boards[i].depth <= max_depth + 1

\* the step that makes a child: it is final when its board is over or the
\* board expanded is max_depth deep, and is queued otherwise
ChildPlaced ==
    (pc = "Expanding" /\ pc' = "Expanding" /\ Len(heap') = Len(heap) + 1) =>
        IF heap'[Len(heap')].game_over \/ cur.depth = max_depth
        THEN /\ queue' = queue
             /\ Len(final_boards') = Len(final_boards) + 1
             /\ final_boards'[Len(final_boards')].board = Len(heap')
             /\ final_boards'[Len(final_boards')].depth = cur.depth + 1
        ELSE /\ final_boards' = final_boards
             /\ Len(queue') = Len(queue) + 1
             /\ queue'[Len(queue')].board = Len(heap')
             /\ queue'[Len(queue')].depth = cur.depth + 1

\* C29: depth cutoff. The children of a board that is max_depth deep are
\* final, so that queued boards have at most max_depth moves behind them and
\* final boards at most max_depth + 1: the search looks max_depth + 1 ticks
\* ahead of the root.
DepthCutoffPlusOne == []DepthBound /\ [][ChildPlaced]_vars

\* a final board max_depth + 1 moves away from the root
DepthCutoffWitness ==
    \E i \in DOMAIN final_boards :
        /\ final_boards[i].depth = max_depth + 1
        /\ Len(final_boards[i].history) = max_depth + 1

\* the step on which chose_move returns a move
Returned == pc = "Evaluate" /\ pc' = "Idle" /\ answer' = "Ok"

\* the move returned is the first move of a final board whose score, as the
\* evaluation loops left it, no other final board exceeds
SelectsGreatest ==
    Returned =>
        /\ DOMAIN scores' = DOMAIN final_boards
        /\ \E i \in DOMAIN final_boards :
              /\ chosen' = final_boards[i].history[1]
              /\ \A j \in DOMAIN final_boards : scores'[i] >= scores'[j]

Leaves(sink) ==
    {w.scores : w \in eval_pass(eval_pass({unscored(final_boards, sink)},
                                          final_boards, Mem, 1),
                                final_boards, Mem, 1)}

\* with the loop over, the scores the evaluation may leave, and with them
\* the move returned, are the same whatever sink the call was given
SameWithAnySink ==
    pc = "Evaluate" =>
        \A sink \in Sinks \cup {[given |-> TRUE, points |-> 1]} :
            Leaves(sink) = Leaves(gizmos)

\* while chose_move runs the sink it was given is written to on return
\* only: points are added to a sink that was given, and none is taken away
SinkOnlyWritten ==
    pc # "Idle" =>
        /\ gizmos'.given = gizmos.given
        /\ gizmos'.points >= gizmos.points
        /\ gizmos' # gizmos => gizmos.given /\ Returned

\* C22: debug sink non-interference. For the same board, random draws and
\* time samples chose_move returns the same whether it is given a sink or
\* not, and the sink is only written to.
SinkNonInterference == []SameWithAnySink /\ [][SinkOnlyWritten]_vars

\* chose_move has returned a move and pushed points to the sink it was given
SinkWitness == answer = "Ok" /\ gizmos.given /\ gizmos.points > 0

\* the entries of the sequences q and f whose history is h
EntriesIn(q, f, h) ==
    Cardinality({i \in DOMAIN q : q[i].history = h})
        + Cardinality({i \in DOMAIN f : f[i].history = h})

\* the entries of the queue and of final_boards whose history is h
Entries(h) == EntriesIn(queue, final_boards, h)

\* one round of the for loop: the reverse of snake 0's direction makes no
\* board; any other direction makes one, by a tick of a reseeded clone of the
\* popped board with that direction for snake 0 and None for the others
OneRound ==
    (pc = "Expanding" /\ pc' = "Expanding" /\ dirs' = dirs + 1) =>
        LET dir == ALL[dirs]
        IN  IF is_reverse(snakes(origin)[0].dir, dir)
            THEN heap' = heap /\ queue' = queue /\ final_boards' = final_boards
            ELSE /\ Len(heap') = Len(heap) + 1
                 /\ \E seed \in Seeds :
                      \E out \in tick_board([origin EXCEPT !.rng = seed],
                                            <<dir, None, None, None>>) :
                          out.result = "Ok" /\ heap'[Len(heap')] = out.board
                 /\ EntriesIn(queue', final_boards', Append(cur.history, dir)) = 1

\* with the for loop over, each direction but the reverse has one child
OneChildEach ==
    (pc = "Expanding" /\ dirs > Len(ALL)) =>
        \A k \in DOMAIN ALL :
            Entries(Append(cur.history, ALL[k]))
                = IF is_reverse(snakes(origin)[0].dir, ALL[k]) THEN 0 ELSE 1

\* the move returned is not the reverse of snake 0's direction on the root
NeverReverse == Returned => ~is_reverse(snakes(root)[0].dir, chosen')

\* C30: expansion. Each popped board with snake 0 on it yields one child for
\* each direction but the reverse of snake 0's direction on it, made by one
\* tick with that direction for snake 0 and no input for the others; the
\* move returned is never the reverse of snake 0's direction on the root.
Expansion == [][OneRound]_vars /\ []OneChildEach /\ [][NeverReverse]_vars

\* a board one move away from the root has been expanded
ExpansionWitness ==
    /\ pc = "Expanding"
    /\ dirs > Len(ALL)
    /\ cur.depth = 1
    /\ Len(cur.history) = 1

\* ------------------------------------------------ properties of eval_board
\* the cells of s and the empty and apple cells next to one of them, and so on
RECURSIVE grow(_, _)
grow(b, s) ==
    LET more == {pos \in Cells(b) \ s :
                    /\ open(b, pos)
                    /\ \E k \in DOMAIN ALL : VecAdd(pos, DIR(ALL[k])) \in s}
    IN  IF more = {} THEN s ELSE grow(b, s \cup more)

\* the empty and apple cells that can be reached from the head of snake id
Reach(b, id) == grow(b, {snakes(b)[id].head}) \ {snakes(b)[id].head}

\* the tail of snake id is next to its head or to a cell reached from it
TailNear(b, id) ==
    \E pos \in Reach(b, id) \cup {snakes(b)[id].head} :
        \E k \in DOMAIN ALL : VecAdd(pos, DIR(ALL[k])) = snakes(b)[id].parts[1]

\* snake id is trapped: fewer than twice its length cells can be reached,
\* and its tail is not next to them
Trapped(b, id) ==
    /\ Cardinality(Reach(b, id)) < 2 * Len(snakes(b)[id].parts)
    /\ ~TailNear(b, id)

\* the death penalty plus the accumulated apple score
Penalty == BAD_SCORE * Scale + acc_in

\* eval_board has been called on the board
Evaluated == value # <<>>

\* C27: without snake 0 on the board eval_board returns the death penalty
\* plus the accumulated apple score, also when other snakes are alive.
AbsentIsPenalty ==
    (Evaluated /\ 0 \notin DOMAIN snakes(board)) => value[1] = Penalty

\* C26: when snake 0 is trapped, eval_board returns the death penalty plus
\* the accumulated apple score; here even with snake 0 the snake looked at.
TrapDetection ==
    (Evaluated /\ looked = 0 /\ Trapped(board, 0)) => value[1] = Penalty

\* C23: with snake 0 on the board and not trapped the value is above the
\* death penalty plus the accumulated apple score, and a value at the
\* penalty is met only with snake 0 absent or trapped.
FloodFillMonotonicity ==
    Evaluated =>
        /\ (0 \in DOMAIN snakes(board) /\ ~Trapped(board, 0)) => value[1] > Penalty
        /\ value[1] <= Penalty => (0 \notin DOMAIN snakes(board) \/ Trapped(board, 0))

\* the same, for the evaluations that look at snake 0 or find no snake
MonotonicityOfSnake0 == looked \in {-1, 0} => FloodFillMonotonicity

\* ------------------------------------------------ properties of cycle_basis
Nodes(g) == 0 .. Len(g) - 1

\* the edges of the graph, a self loop being the set of its one node
Edges(g) == {{i, j} : i \in Nodes(g), j \in Nodes(g)} \cap
                {{i, neighbors(g, i)[k]} : <<i, k>> \in
                    {<<i, k>> \in Nodes(g) \X (1 .. Len(g)) : k <= Len(neighbors(g, i))}}

\* the nodes joined to a node of s by a path
RECURSIVE joined(_, _)
joined(g, s) ==
    LET more == {j \in Nodes(g) \ s : \E i \in s : {i, j} \in Edges(g)}
    IN  IF more = {} THEN s ELSE joined(g, s \cup more)

\* the connected components of the graph
Components(g) == {joined(g, {i}) : i \in Nodes(g)}

\* |E| - |V| + the number of connected components
Cyclomatic(g) == Cardinality(Edges(g)) - Len(g) + Cardinality(Components(g))

\* the same number for the component of node 0 alone
CyclomaticOfRoot(g) ==
    Cardinality({e \in Edges(g) : e \subseteq joined(g, {0})}) - Cardinality(joined(g, {0})) + 1

\* cycle_basis has returned
BasisReturned == cycles.status = "Ok"

\* C24: the number of cycles cycle_basis returns is |E| - |V| + the number of
\* connected components of the whole graph, the loops of the components
\* that node 0 is not in included.
WholeGraphBasis == BasisReturned => Len(cycles.list) = Cyclomatic(graph)

\* the cycles returned are as many as the independent loops of the
\* component of node 0
RootComponentBasis == BasisReturned => Len(cycles.list) = CyclomaticOfRoot(graph)

\* ------------------------------------------------------------ the scores
\* the AppleEaten events of snake id among the events log
Eaten(log, id) == Cardinality({i \in DOMAIN log : log[i] = AppleEaten(id)})

\* the entry the step put at the end of the queue or of final_boards
NewEntry(q, f, q2, f2) == IF Len(q2) > Len(q) THEN q2[Len(q2)] ELSE f2[Len(f2)]

\* the step makes a child of the popped board
ChildMade ==
    /\ pc = "Expanding"
    /\ pc' = "Expanding"
    /\ dirs' = dirs + 1
    /\ Len(heap') = Len(heap) + 1

\* C31: the score of a child is the score of its parent plus 1 / (d + 1),
\* d the depth of the parent, for each AppleEaten event of snake 0 in the
\* tick that made it; no other event changes the score.
ScoreAccrual ==
    [][ChildMade =>
          \A seed \in Seeds :
              \A out \in tick_board([origin EXCEPT !.rng = seed],
                                    <<ALL[dirs], None, None, None>>) :
                  (out.result = "Ok" /\ heap'[Len(heap')] = out.board) =>
                      NewEntry(queue, final_boards, queue', final_boards').score * (cur.depth + 1)
                          = cur.score * (cur.depth + 1) + Eaten(out.events, 0) * ScoreUnit]_vars

\* a child of a board one move from the root whose score is above that of
\* its parent
ScoreAccrualWitness ==
    /\ pc = "Expanding"
    /\ cur.depth = 1
    /\ \E i \in DOMAIN final_boards :
          /\ final_boards[i].depth = 2
          /\ final_boards[i].score > cur.score
          /\ SubSeq(final_boards[i].history, 1, 1) = cur.history

\* ------------------------------------------------------ the score formula
\* the positions next to a position of s, on the board or off it
NextTo(s) == {VecAdd(pos, DIR(ALL[k])) : pos \in s, k \in DOMAIN ALL}

\* the positions a flood fill from the head of snake id examines when
\* nothing stops it: the head, the cells reached and all that is next to them
Examined(b, id) ==
    LET inside == Reach(b, id) \cup {snakes(b)[id].head}
    IN  inside \cup NextTo(inside)

\* flood_fill_ratio + 2 x apple score + 2 x 2^(-k) for snake id, in units of
\* 1 / Scale, with cap = 2 x body length and k the number of holes
Formula(b, id, acc) ==
    LET cap == 2 * Len(snakes(b)[id].parts)
        k == Cardinality(holes(b))
    IN  Min(Cardinality(Examined(b, id)), cap) * (Scale \div cap)
            + 2 * acc + 2 * (Scale \div (2 ^ k))

\* C32: on a board with snake 0 present and not trapped eval_board returns
\* flood_fill_ratio + 2 x apple score + 2 x 2^(-k), the ratio being
\* min(visited, cap) / cap of snake 0 with cap twice its length, and k the
\* number of empty or apple cells with no empty or apple neighbour.
ScoreFormula ==
    (Evaluated /\ 0 \in DOMAIN snakes(board) /\ ~Trapped(board, 0)) =>
        value[1] = Formula(board, 0, acc_in)

\* the same, for the evaluations that look at snake 0
ScoreFormulaOfSnake0 == looked = 0 => ScoreFormula

\* --------------------------------------------------- following a tail
\* snake a moved its head onto the cell the tail of another snake b was on
\* before the tick, and b moved without eating an apple
FollowsTailOf(a, b) ==
    /\ Advanced
    /\ a \in DOMAIN prev.snakes
    /\ b \in DOMAIN prev.snakes
    /\ a # b
    /\ NewHead(a) = prev.snakes[b].parts[1]
    /\ AppleEaten(b) \notin Range(events)

\* the cell snake a moved its head onto is classified as the head of a
HeadCellOf(a) ==
    /\ get(board, NewHead(a)).cell = "Snake"
    /\ get(board, NewHead(a)).id = a
    /\ get(board, NewHead(a)).part = Len(board.snakes[a].parts) - 1

\* C33 as claimed: a snake that follows the tail of another snake is not
\* eliminated, whichever of the two has the lower id, and the cell is
\* classified as its head after the tick.
FollowingNeverHurts ==
    \A a, b \in 0 .. MaxPlayers - 1 :
        FollowsTailOf(a, b) => (a \in DOMAIN board.snakes /\ HeadCellOf(a))

\* C33 amended: a snake that follows the tail of another snake is eliminated
\* by that tick exactly when the new head of yet another snake, or of the
\* snake followed, lands on the same cell; otherwise the cell is classified
\* as its head after the tick, whichever of the two has the lower id.
Following ==
    \A a, b \in 0 .. MaxPlayers - 1 :
        FollowsTailOf(a, b) =>
            IF \E other \in (DOMAIN moved.snakes) \ {a} : NewHead(other) = NewHead(a)
            THEN a \notin DOMAIN board.snakes
            ELSE a \in DOMAIN board.snakes /\ HeadCellOf(a)

\* a snake followed the tail of a snake of lower id and lives
FollowingLowerWitness ==
    \E a, b \in DOMAIN board.snakes : b < a /\ FollowsTailOf(a, b)

\* C33 witness: a snake followed the tail of a snake of higher id and lives,
\* the cell being its head
FollowingWitness ==
    \E a, b \in DOMAIN board.snakes : a < b /\ FollowsTailOf(a, b) /\ HeadCellOf(a)

\* --------------------------------------------------- the spawn soft-failure
\* the apples the run of apple_system put on the board
NewApples == board.apples \ prev.apples

\* the run changed nothing but the apples and the rng, and put at most one
\* apple for each event on cells that held no apple and no snake
OnlyApples ==
    /\ board = [prev EXCEPT !.apples = board.apples, !.rng = board.rng]
    /\ prev.apples \subseteq board.apples
    /\ Cardinality(NewApples) <= spawned.asked
    /\ \A pos \in NewApples : pos \in Cells(prev) /\ ~rejected(prev, pos)

\* the placement loop from rng state r on board b tested SPAWN_CAP positions,
\* all of them rejected, and stopped at the draw after them
GaveUp(b, r) ==
    /\ \A i \in 1 .. RngMod :
          rejected(b, <<StepTab[2 * i - 1][r] % b.width, StepTab[2 * i][r] % b.height>>)
    /\ ~spawn_apple(b, r).placed
    /\ spawn_apple(b, r).rng = StepTab[2 * (SPAWN_CAP + 1)][r]

\* a tick in which an apple was eaten and none was put in its place is
\* applied all the same: no error, the moves made, the collisions resolved
TickGoesOn ==
    (Advanced /\ ~spawned.done
        /\ \E id \in DOMAIN prev.snakes : AppleEaten(id) \in Range(events)
        /\ Cardinality(board.apples) < Cardinality(prev.apples)) =>
        /\ result = "Ok"
        /\ DOMAIN board.snakes = (DOMAIN moved.snakes) \ damaged_snakes(moved)
        /\ \A id \in DOMAIN board.snakes : board.snakes[id] = moved.snakes[id]
        /\ \A id \in DOMAIN prev.snakes :
              moved.snakes[id].head = new_head(prev.snakes[id], None)
                 \/ \E d \in {Up, Down, Left, Right} :
                       moved.snakes[id].head = new_head(prev.snakes[id], d)

UnreplacedWitness ==
    /\ Advanced
    /\ ~spawned.done
    /\ \E id \in DOMAIN prev.snakes : AppleEaten(id) \in Range(events)
    /\ Cardinality(board.apples) < Cardinality(prev.apples)

\* ------------------------------------------------------ search termination
\* chose_move is in its while loop
InLoop == pc \in {"Loop", "Expanding"}

\* the while loop is over: the final boards are evaluated, or the call ended
LoopOver == pc \in {"Evaluate", "Idle", "Panicked"}

\* every queued board is at most max_depth deep
QueuedWithinDepth == \A i \in DOMAIN queue : queue[i].depth <= max_depth

\* a child is deeper than the board it was made from
DepthGrows ==
    ChildMade => NewEntry(queue, final_boards, queue', final_boards').depth > cur.depth

\* C35: search termination. With max_time never exceeded the while loop of
\* chose_move still ends: every queued board is at most max_depth deep and a
\* child is deeper than its parent.
SearchTerminates ==
    /\ []QueuedWithinDepth
    /\ [][DepthGrows]_vars
    /\ InLoop ~> LoopOver

\* the loop ended with the queue empty after boards max_depth deep were
\* expanded
SearchTerminatesWitness ==
    /\ pc = "Evaluate"
    /\ queue = <<>>
    /\ \E i \in DOMAIN final_boards : final_boards[i].depth = max_depth + 1

\* a and b are joined by an edge of the graph, a node with a self loop to
\* itself
Adjacent(g, a, b) ==
    /\ a \in Nodes(g)
    /\ \E k \in DOMAIN neighbors(g, a) : neighbors(g, a)[k] = b

\* c is a simple cycle of the graph: one node with a self loop, or nodes all
\* different, each joined to the next and the last to the first
SimpleCycle(g, c) ==
    IF Len(c) = 1 THEN Adjacent(g, c[1], c[1])
    ELSE /\ Len(c) >= 3
         /\ \A i, j \in DOMAIN c : c[i] = c[j] => i = j
         /\ \A i \in 1 .. Len(c) - 1 : Adjacent(g, c[i], c[i + 1])
         /\ Adjacent(g, c[Len(c)], c[1])

\* C36: every cycle cycle_basis returns is a simple cycle of the graph: no
\* node twice, consecutive nodes joined by an edge, the last joined to the
\* first; a self loop gives the cycle of its one node.
CyclesSimple ==
    BasisReturned =>
        /\ \A i \in DOMAIN cycles.list : SimpleCycle(graph, cycles.list[i])
        /\ \A z \in joined(graph, {0}) :
              Adjacent(graph, z, z) => \E i \in DOMAIN cycles.list : cycles.list[i] = <<z>>

\* two cycles returned for a graph with a self loop on a node other than 0:
\* the one of the self loop and one of three nodes or more
CyclesSimpleWitness ==
    /\ BasisReturned
    /\ \E i, j \in DOMAIN cycles.list :
          /\ Len(cycles.list[i]) = 1
          /\ cycles.list[i][1] # 0
          /\ Len(cycles.list[j]) >= 4

\* C37: cycle_basis ends and returns a list for every graph, without a cycle
\* for the graph with no node, also when node 0 has no neighbour; the walk
\* over the predecessors always meets a node paired with the neighbour.
BasisAlwaysReturned ==
    cycles.status # "None" =>
        /\ cycles.status = "Ok"
        /\ Len(graph) = 0 => cycles.list = <<>>

\* on a graph with a node cycle_basis returns, node 0 alone included, and
\* the walk over the predecessors ends
ReturnedWithNodes ==
    (cycles.status # "None" /\ Len(graph) > 0) => cycles.status = "Ok"

\* ---------------------------------------------------------- the input queues
\* an input in front of a queue, nothing for no input
Cons(x, q) == IF x = None THEN q ELSE <<x>> \o q

\* q is the front of r
IsPrefix(q, r) == Len(q) <= Len(r) /\ \A i \in 1 .. Len(q) : r[i] = q[i]

\* the step is a frame of update_game that called tick_board
TickMade == frame.phase = "update_game" /\ frame'.phase = "ai_system" /\ ticks' = ticks + 1

\* the step is a run of ai_system
AiRan == frame.phase = "ai_system" /\ frame'.phase = "update_game"

\* C39: a frame of update_game that ticks the board gives it one move slot
\* per input queue: the oldest entry of the queue, taken out of it, or None
\* when the queue is empty once the frame's key is in; the rest of the queue
\* keeps its order. ai_system leaves every queue but the first alone, and
\* appends its direction to the first only with settings.ai set and that
\* queue empty, so what waited in the queue is still at its front.
DriverHandOff ==
    [][/\ TickMade =>
            /\ Len(given') = SLOTS
            /\ \A i \in 1 .. SLOTS :
                  /\ Cons(given'[i], input_queues'[i])
                        \in {input_queues[i]} \cup {Append(input_queues[i], k) : k \in Direction}
                  /\ given'[i] = None => input_queues'[i] = <<>>
       /\ AiRan =>
            /\ \A i \in 2 .. SLOTS : input_queues'[i] = input_queues[i]
            /\ IsPrefix(input_queues[1], input_queues'[1])
            /\ input_queues'[1] # input_queues[1] =>
                  /\ settings.ai
                  /\ input_queues[1] = <<>>
                  /\ Len(input_queues'[1]) = 1
                  /\ input_queues'[1][1] \in Direction
      ]_vars

\* the board was ticked with an input of each of two players while more
\* waited in the first queue, and ai_system has run since with settings.ai set
DriverHandOffWitness ==
    /\ ticks > 0
    /\ Len(given) = SLOTS
    /\ given[1] # None
    /\ given[2] # None
    /\ input_queues[1] # <<>>
    /\ settings.ai
    /\ frame.phase = "update_game"

\* a queue of at most QUEUE_CAP directions, none the same as or the opposite
\* of the one before it
WellFormed(q) ==
    /\ Len(q) <= QUEUE_CAP
    /\ \A i \in 1 .. Len(q) - 1 : q[i + 1] # q[i] /\ q[i + 1] # opposite(q[i])

\* C40: every input queue holds at most three directions and no two
\* directions next to each other in it are equal or opposite, whatever keys,
\* pushes of ai_system and ticks came before; snake_system's key handling
\* keeps a queue so as well.
InputQueueInvariant ==
    \A i \in 1 .. SLOTS :
        /\ WellFormed(input_queues[i])
        /\ \A forward \in Direction, key \in Inputs :
              WellFormed(snake_press(input_queues[i], forward, key))

\* the queues of two players full, with ai_system pushing
InputQueueInvariantWitness ==
    /\ settings.ai
    /\ Len(input_queues[1]) = QUEUE_CAP
    /\ Len(input_queues[2]) = QUEUE_CAP

\* inputs still waiting in a queue after a tick took its oldest
QueuedAfterTick ==
    /\ ticks > 0
    /\ given[1] # None
    /\ Len(input_queues[1]) = QUEUE_CAP - 1

\* ------------------------------------------------------- the server's channels
\* game_loop waits in Clients::broadcast for room in the update channel of c
LoopBlockedOn(c) ==
    /\ game.pc = "broadcast"
    /\ game.at <= Len(game.clients)
    /\ game.clients[game.at] = c
    /\ ~dropped(c)
    /\ Len(game_updates[c]) >= CHANNEL_CAP

\* the handler of c waits for room in its command channel
HandlerBlocked(c) ==
    /\ handlers[c].pc = "send"
    /\ game.pc # "exited"
    /\ Len(game_commands[c]) >= CHANNEL_CAP

\* C38: game_loop never waits to send an update to a client whose handler
\* waits to send a command to game_loop.
ServerDeadlockFree ==
    \A c \in ClientIds : ~(LoopBlockedOn(c) /\ HandlerBlocked(c))

\* no channel holds more than its capacity
ChannelsWithinCapacity ==
    /\ Len(register) <= CHANNEL_CAP
    /\ \A c \in ClientIds :
          Len(game_commands[c]) <= CHANNEL_CAP /\ Len(game_updates[c]) <= CHANNEL_CAP

====
